---- MODULE Spec2Model ----
(***************************************************************************)
(* Tejedor de Subtes: the track graph edited on the Board, the route       *)
(* resolution of startSimulation (findPath per consecutive station pair),  *)
(* the timed animation of the train, and the App that mounts the Board.    *)
(*                                                                         *)
(* Board is modelled from src/unnamed/part_001 (the Board with onExit),    *)
(* findPath from src/unnamed/part_000 (utils/pathfinding), App from the    *)
(* second App of src/unnamed/part_002 (Board kept mounted during           *)
(* LEVEL_COMPLETE).  Sound, viewport transform and rendering hold no game  *)
(* state and are left out.                                                 *)
(***************************************************************************)
EXTENDS Integers, Sequences, FiniteSets, TLC

\* --------------------------------------------------------------- constants
\* const GRID_SIZE = 15: the side of the square grid.
GRID_SIZE == 15

\* ------------------------------------------------------------------ bounds
\* Calls of modifyConnection explored per behaviour.
MaxEdits == 2
\* startSimulation runs started per behaviour.
MaxRuns == 2
\* generateLevel calls in flight at once.
MaxLoads == 2
\* Calls of modifyConnection explored per behaviour of SpecDraw.
MaxDrawEdits == 4
\* Calls of modifyConnection before a path query in SpecPath.
MaxGraphEdits == 4
\* Offsets of the random sequences explored in SpecGen.
MaxSeed == 3

\* ------------------------------------------------------------ coordinates
Coordinates == [x : 0..(GRID_SIZE - 1), y : 0..(GRID_SIZE - 1)]

\* null for a Coordinate | null
NoCell == [x |-> -1, y |-> -1]

\* The cells the model's pointers, stations, obstacles and path queries use: a
\* 2 x 2 block inside the grid and one cell away from it.
BlockCells == [x : {1, 2}, y : {1, 2}]
FarCell == [x |-> 4, y |-> 4]
UsedCells == BlockCells \cup {FarCell}

\* getKey: `${x},${y}`.  The key is encoded as one integer, injective on the
\* grid; for the one-digit coordinates of UsedCells the integer order is the
\* string order that Array.sort uses in getEdgeKey.
getKey(x, y) == x * GRID_SIZE + y

\* neighborKey.split(',').map(Number)
parseKey(k) == [x |-> k \div GRID_SIZE, y |-> k % GRID_SIZE]

\* connections.get(k) || []
Neighbors(conn, k) == IF k \in DOMAIN conn THEN conn[k] ELSE << >>

\* Array.prototype.includes
Includes(seq, v) == \E i \in 1..Len(seq) : seq[i] = v

\* Array.prototype.filter(k => k !== v)
RECURSIVE FilterOut(_, _)
FilterOut(seq, v) ==
    IF seq = << >> THEN << >>
    ELSE IF Head(seq) = v THEN FilterOut(Tail(seq), v)
         ELSE <<Head(seq)>> \o FilterOut(Tail(seq), v)

\* new Map(prev).set(k, v)
MapSet(m, k, v) == [j \in (DOMAIN m) \cup {k} |-> IF j = k THEN v ELSE m[j]]

\* new Map(prev).delete(k)
MapDelete(m, k) == [j \in (DOMAIN m) \ {k} |-> m[j]]

EmptyMap == [j \in {} |-> << >>]

\* ------------------------------------------------------------ pathfinding
\* ExpandNeighbors with a break after the first push: only the first unvisited
\* neighbour is enqueued.
RECURSIVE ExpandFirstNeighbor(_, _, _)
ExpandFirstNeighbor(neighbors, path, st) ==
    IF neighbors = << >> THEN st
    ELSE LET neighborKey == Head(neighbors)
         IN IF neighborKey \notin st.visited
            THEN [queue   |-> Append(st.queue,
                                 [pos  |-> parseKey(neighborKey),
                                  path |-> Append(path, parseKey(neighborKey))]),
                  visited |-> st.visited \cup {neighborKey}]
            ELSE ExpandFirstNeighbor(Tail(neighbors), path, st)

\* ExpandNeighbors without the visited set: a neighbour is pushed unless it
\* already lies on the path of the dequeued item.
RECURSIVE ExpandNeighborsOffPath(_, _, _)
ExpandNeighborsOffPath(neighbors, path, st) ==
    IF neighbors = << >> THEN st
    ELSE LET neighborKey == Head(neighbors)
         IN IF \A n \in 1..Len(path) : getKey(path[n].x, path[n].y) # neighborKey
            THEN ExpandNeighborsOffPath(Tail(neighbors), path,
                    [queue   |-> Append(st.queue,
                                    [pos  |-> parseKey(neighborKey),
                                     path |-> Append(path, parseKey(neighborKey))]),
                     visited |-> st.visited])
            ELSE ExpandNeighborsOffPath(Tail(neighbors), path, st)

\* The for-loop over the neighbours of the dequeued cell: every neighbour not
\* yet visited is marked visited and pushed with the extended path.
\* st = [queue, visited].
RECURSIVE ExpandNeighbors(_, _, _)
ExpandNeighbors(neighbors, path, st) ==
    IF neighbors = << >> THEN st
    ELSE LET neighborKey == Head(neighbors)
         IN IF neighborKey \notin st.visited
            THEN ExpandNeighbors(Tail(neighbors), path,
                    [queue   |-> Append(st.queue,
                                    [pos  |-> parseKey(neighborKey),
                                     path |-> Append(path, parseKey(neighborKey))]),
                     visited |-> st.visited \cup {neighborKey}])
            ELSE ExpandNeighbors(Tail(neighbors), path, st)

\* The while-loop of findPath: queue.shift(), test against the end key,
\* expand.  dequeues counts the iterations.
RECURSIVE BfsLoop(_, _, _, _, _)
BfsLoop(queue, visited, endKey, conn, dequeues) ==
    IF queue = << >> THEN [found |-> FALSE, path |-> << >>, dequeues |-> dequeues]
    ELSE LET item       == Head(queue)
             currentKey == getKey(item.pos.x, item.pos.y)
         IN IF currentKey = endKey
            THEN [found |-> TRUE, path |-> item.path, dequeues |-> dequeues + 1]
            ELSE LET st == ExpandNeighbors(Neighbors(conn, currentKey), item.path,
                               [queue |-> Tail(queue), visited |-> visited])
                 IN BfsLoop(st.queue, st.visited, endKey, conn, dequeues + 1)

\* findPath(start, end, connections): Coordinate[] | null
findPath(start, end, conn) ==
    LET startKey == getKey(start.x, start.y)
        endKey   == getKey(end.x, end.y)
    IN IF startKey = endKey
       THEN [found |-> TRUE, path |-> <<start>>, dequeues |-> 0]
       ELSE BfsLoop(<<[pos |-> start, path |-> <<start>>]>>, {startKey},
                    endKey, conn, 0)

\* ----------------------------------------------------------------- levels
\* LevelConfig values (types.ts) with few stations: stations on pairwise
\* distinct cells away from the border, obstacles off the stations, a route of
\* station ids (LevelB closes the loop as generateLevel does for difficulty 5).
LevelA ==
    [stations     |-> <<[id |-> "s-0", name |-> "Palermo",  x |-> 1, y |-> 1],
                        [id |-> "s-1", name |-> "Catedral", x |-> 2, y |-> 2]>>,
     obstacles    |-> <<[type |-> "OBSTACLE_WATER", x |-> 2, y |-> 1]>>,
     routeRequest |-> <<"s-0", "s-1">>]

LevelB ==
    [stations     |-> <<[id |-> "s-0", name |-> "Palermo",  x |-> 1, y |-> 1],
                        [id |-> "s-1", name |-> "Catedral", x |-> 2, y |-> 1],
                        [id |-> "s-2", name |-> "Congreso", x |-> 2, y |-> 2]>>,
     obstacles    |-> <<[type |-> "OBSTACLE_TUNNEL", x |-> 1, y |-> 2]>>,
     routeRequest |-> <<"s-0", "s-1", "s-2", "s-0">>]

\* A LevelConfig whose route request has a single id: routeRequest is a
\* string[] of any length, and geminiService's generateLevel maps whatever
\* routeIndices its response holds.
LevelC ==
    [stations     |-> <<[id |-> "s-0", name |-> "Palermo",  x |-> 1, y |-> 1],
                        [id |-> "s-1", name |-> "Catedral", x |-> 2, y |-> 2]>>,
     obstacles    |-> <<[type |-> "OBSTACLE_FOSSIL", x |-> 3, y |-> 3]>>,
     routeRequest |-> <<"s-0">>]

\* A LevelConfig whose route request holds an id that names no station, as
\* the route indices mapped by geminiService's generateLevel can.
LevelD ==
    [stations     |-> <<[id |-> "s-0", name |-> "Palermo",  x |-> 1, y |-> 1],
                        [id |-> "s-1", name |-> "Catedral", x |-> 2, y |-> 2]>>,
     obstacles    |-> <<[type |-> "OBSTACLE_WATER", x |-> 2, y |-> 1]>>,
     routeRequest |-> <<"s-0", "s-5", "s-1">>]

\* A LevelConfig whose route request names a station twice in a row, first and
\* last (the data model does not forbid it).
LevelE ==
    [stations     |-> <<[id |-> "s-0", name |-> "Palermo",  x |-> 1, y |-> 1],
                        [id |-> "s-1", name |-> "Catedral", x |-> 2, y |-> 2]>>,
     obstacles    |-> <<[type |-> "OBSTACLE_WATER", x |-> 2, y |-> 1]>>,
     routeRequest |-> <<"s-0", "s-0", "s-1", "s-1">>]

\* A LevelConfig whose route request starts with an id that names no station
\* and goes on with a pair of stations.
LevelF ==
    [stations     |-> <<[id |-> "s-0", name |-> "Palermo",  x |-> 1, y |-> 1],
                        [id |-> "s-1", name |-> "Catedral", x |-> 2, y |-> 2]>>,
     obstacles    |-> <<[type |-> "OBSTACLE_WATER", x |-> 2, y |-> 1]>>,
     routeRequest |-> <<"s-5", "s-0", "s-1">>]

\* The levels App plays: those of the shape levelGenerator's generateLevel
\* returns.
LevelIds == {"A", "B"}

\* Every LevelConfig the Board is asked to resolve in SpecPath.
AllLevelIds == {"A", "B", "C", "D", "E", "F"}

\* currentLevel: LevelConfig | null
NoLevel == "null"

LevelOf(id) ==
    IF id = "A" THEN LevelA
    ELSE IF id = "C" THEN LevelC
    ELSE IF id = "D" THEN LevelD
    ELSE IF id = "E" THEN LevelE
    ELSE IF id = "F" THEN LevelF
    ELSE LevelB

\* level.obstacles.some(o => o.x === x && o.y === y)
isObstacle(level, x, y) ==
    \E i \in 1..Len(level.obstacles) :
        level.obstacles[i].x = x /\ level.obstacles[i].y = y

\* level.stations.find(s => s.id === id): index of the first match, 0 for
\* undefined.
RECURSIVE FindStationFrom(_, _, _)
FindStationFrom(stations, id, i) ==
    IF i > Len(stations) THEN 0
    ELSE IF stations[i].id = id THEN i
         ELSE FindStationFrom(stations, id, i + 1)

FindStation(stations, id) == FindStationFrom(stations, id, 1)

\* ------------------------------------------------------- route resolution
\* ResolveLoop with continue in place of the return for a blocked segment.
RECURSIVE ResolveLoopContinues(_, _, _, _, _)
ResolveLoopContinues(i, level, conn, fullPath, searched) ==
    LET routeIds == level.routeRequest
    IN IF ~(i < Len(routeIds) - 1)
       THEN [ok |-> TRUE, fullPath |-> fullPath, from |-> "", to |-> "",
             searched |-> searched]
       ELSE LET s == FindStation(level.stations, routeIds[i + 1])
                e == FindStation(level.stations, routeIds[i + 2])
            IN IF s = 0 \/ e = 0
               THEN ResolveLoopContinues(i + 1, level, conn, fullPath, searched)
               ELSE LET segmentPath ==
                            findPath([x |-> level.stations[s].x,
                                      y |-> level.stations[s].y],
                                     [x |-> level.stations[e].x,
                                      y |-> level.stations[e].y], conn)
                    IN IF ~segmentPath.found
                       THEN ResolveLoopContinues(i + 1, level, conn, fullPath,
                                                 Append(searched, i))
                       ELSE ResolveLoopContinues(i + 1, level, conn,
                               fullPath \o (IF i > 0 THEN Tail(segmentPath.path)
                                            ELSE segmentPath.path),
                               Append(searched, i))

\* ResolveLoop without segmentPath.shift(): every segment is concatenated
\* whole.
RECURSIVE ResolveLoopNoShift(_, _, _, _, _)
ResolveLoopNoShift(i, level, conn, fullPath, searched) ==
    LET routeIds == level.routeRequest
    IN IF ~(i < Len(routeIds) - 1)
       THEN [ok |-> TRUE, fullPath |-> fullPath, from |-> "", to |-> "",
             searched |-> searched]
       ELSE LET s == FindStation(level.stations, routeIds[i + 1])
                e == FindStation(level.stations, routeIds[i + 2])
            IN IF s = 0 \/ e = 0
               THEN ResolveLoopNoShift(i + 1, level, conn, fullPath, searched)
               ELSE LET startStation == level.stations[s]
                        endStation   == level.stations[e]
                        segmentPath  ==
                            findPath([x |-> startStation.x, y |-> startStation.y],
                                     [x |-> endStation.x, y |-> endStation.y], conn)
                    IN IF ~segmentPath.found
                       THEN [ok |-> FALSE, fullPath |-> fullPath,
                             from |-> startStation.name, to |-> endStation.name,
                             searched |-> Append(searched, i)]
                       ELSE ResolveLoopNoShift(i + 1, level, conn,
                               fullPath \o segmentPath.path,
                               Append(searched, i))

\* ResolveLoop with break in place of continue: the loop ends at the first
\* pair with an id that names no station.
RECURSIVE ResolveLoopBreaks(_, _, _, _, _)
ResolveLoopBreaks(i, level, conn, fullPath, searched) ==
    LET routeIds == level.routeRequest
    IN IF ~(i < Len(routeIds) - 1)
       THEN [ok |-> TRUE, fullPath |-> fullPath, from |-> "", to |-> "",
             searched |-> searched]
       ELSE LET s == FindStation(level.stations, routeIds[i + 1])
                e == FindStation(level.stations, routeIds[i + 2])
            IN IF s = 0 \/ e = 0
               THEN [ok |-> TRUE, fullPath |-> fullPath, from |-> "", to |-> "",
                     searched |-> searched]
               ELSE LET startStation == level.stations[s]
                        endStation   == level.stations[e]
                        segmentPath  ==
                            findPath([x |-> startStation.x, y |-> startStation.y],
                                     [x |-> endStation.x, y |-> endStation.y], conn)
                    IN IF ~segmentPath.found
                       THEN [ok |-> FALSE, fullPath |-> fullPath,
                             from |-> startStation.name, to |-> endStation.name,
                             searched |-> Append(searched, i)]
                       ELSE ResolveLoopBreaks(i + 1, level, conn,
                               fullPath \o (IF i > 0 THEN Tail(segmentPath.path)
                                            ELSE segmentPath.path),
                               Append(searched, i))

\* The first for-loop of startSimulation, i counted from 0 as in the code.
\* searched lists the values of i for which findPath was called.
RECURSIVE ResolveLoop(_, _, _, _, _)
ResolveLoop(i, level, conn, fullPath, searched) ==
    LET routeIds == level.routeRequest
    IN IF ~(i < Len(routeIds) - 1)
       THEN [ok |-> TRUE, fullPath |-> fullPath, from |-> "", to |-> "",
             searched |-> searched]
       ELSE LET s == FindStation(level.stations, routeIds[i + 1])
                e == FindStation(level.stations, routeIds[i + 2])
            IN IF s = 0 \/ e = 0
               THEN ResolveLoop(i + 1, level, conn, fullPath, searched)
               ELSE LET startStation == level.stations[s]
                        endStation   == level.stations[e]
                        segmentPath  ==
                            findPath([x |-> startStation.x, y |-> startStation.y],
                                     [x |-> endStation.x, y |-> endStation.y], conn)
                    IN IF ~segmentPath.found
                       THEN [ok |-> FALSE, fullPath |-> fullPath,
                             from |-> startStation.name, to |-> endStation.name,
                             searched |-> Append(searched, i)]
                       ELSE ResolveLoop(i + 1, level, conn,
                               fullPath \o (IF i > 0 THEN Tail(segmentPath.path)
                                            ELSE segmentPath.path),
                               Append(searched, i))

ResolveRoute(level, conn) == ResolveLoop(0, level, conn, << >>, << >>)

\* ------------------------------------------------------------ track graph
\* getEdgeKey: [getKey(c1), getKey(c2)].sort().join('|')
getEdgeKey(c1, c2) ==
    LET k1 == getKey(c1.x, c1.y)
        k2 == getKey(c2.x, c2.y)
    IN IF k1 <= k2 THEN <<k1, k2>> ELSE <<k2, k1>>

\* The updater of setConnections without its second set: b is entered among
\* the neighbours of a, a is not entered among those of b.
ConnectionsUpdateOneWay(prev, k1, k2, mode) ==
    LET prevN1 == Neighbors(prev, k1)
        prevN2 == Neighbors(prev, k2)
    IN IF mode = "add"
       THEN IF ~Includes(prevN1, k2)
            THEN MapSet(prev, k1, Append(prevN1, k2)) ELSE prev
       ELSE MapSet(MapSet(prev, k1, FilterOut(prevN1, k2)),
                   k2, FilterOut(prevN2, k1))

\* The updater of setConnections removing on one side only: a stays among the
\* neighbours of b.
ConnectionsUpdateRemoveOneSide(prev, k1, k2, mode) ==
    LET prevN1 == Neighbors(prev, k1)
        prevN2 == Neighbors(prev, k2)
    IN IF mode = "add"
       THEN LET m1 == IF ~Includes(prevN1, k2)
                      THEN MapSet(prev, k1, Append(prevN1, k2)) ELSE prev
            IN IF ~Includes(prevN2, k1)
               THEN MapSet(m1, k2, Append(prevN2, k1)) ELSE m1
       ELSE MapSet(prev, k1, FilterOut(prevN1, k2))

\* The updater of setConnections without the includes tests: a key is appended
\* on every add.
ConnectionsUpdateAppends(prev, k1, k2, mode) ==
    LET prevN1 == Neighbors(prev, k1)
        prevN2 == Neighbors(prev, k2)
    IN IF mode = "add"
       THEN MapSet(MapSet(prev, k1, Append(prevN1, k2)),
                   k2, Append(Neighbors(MapSet(prev, k1, Append(prevN1, k2)), k2),
                              k1))
       ELSE MapSet(MapSet(prev, k1, FilterOut(prevN1, k2)),
                   k2, FilterOut(prevN2, k1))

\* The updater of setConnections drawing as a toggle: adding an edge that is
\* present removes it.
ConnectionsUpdateToggle(prev, k1, k2, mode) ==
    LET prevN1 == Neighbors(prev, k1)
        prevN2 == Neighbors(prev, k2)
    IN IF mode = "add" /\ ~Includes(prevN1, k2)
       THEN LET m1 == MapSet(prev, k1, Append(prevN1, k2))
            IN IF ~Includes(prevN2, k1)
               THEN MapSet(m1, k2, Append(prevN2, k1)) ELSE m1
       ELSE MapSet(MapSet(prev, k1, FilterOut(prevN1, k2)),
                   k2, FilterOut(prevN2, k1))

\* The updater passed to setConnections in modifyConnection.
ConnectionsUpdate(prev, k1, k2, mode) ==
    LET prevN1 == Neighbors(prev, k1)
        prevN2 == Neighbors(prev, k2)
    IN IF mode = "add"
       THEN LET m1 == IF ~Includes(prevN1, k2)
                      THEN MapSet(prev, k1, Append(prevN1, k2)) ELSE prev
            IN IF ~Includes(prevN2, k1)
               THEN MapSet(m1, k2, Append(prevN2, k1)) ELSE m1
       ELSE MapSet(MapSet(prev, k1, FilterOut(prevN1, k2)),
                   k2, FilterOut(prevN2, k1))

\* The updater of setEdgeColors that keeps the colour of a removed edge.
EdgeColorsUpdateNoDelete(prev, edgeKey, mode, color) ==
    IF mode = "add" THEN MapSet(prev, edgeKey, color) ELSE prev

\* The updater of setEdgeColors that keeps the colour an edge already has.
EdgeColorsUpdateKeepsFirst(prev, edgeKey, mode, color) ==
    IF mode = "add"
    THEN IF edgeKey \in DOMAIN prev THEN prev ELSE MapSet(prev, edgeKey, color)
    ELSE MapDelete(prev, edgeKey)

\* The updater passed to setEdgeColors in modifyConnection.
EdgeColorsUpdate(prev, edgeKey, mode, color) ==
    IF mode = "add" THEN MapSet(prev, edgeKey, color) ELSE MapDelete(prev, edgeKey)

\* ------------------------------------------------------------------ state
VARIABLES
    \* App
    appState,           \* "MENU" | "LOADING_LEVEL" | "PLAYING" | "LEVEL_COMPLETE"
    currentLevel,       \* a level id, or NoLevel
    loading,            \* generateLevel promises not yet resolved
    isShaking,
    levelEffectPending, \* the Board was mounted, or rendered with a new level
                        \* object, and its [level] effect has not run yet
    \* Board (the values of a Board that is not mounted are the initial ones)
    connections,        \* Map<string, string[]>: key -> sequence of keys
    edgeColors,         \* Map<string, string>: edge key -> colour
    drawMode,           \* "add" | "remove"
    activeColor,
    collisionCell,      \* Coordinate | null
    isSimulating,
    trainPosition,      \* Coordinate | null
    simulationMessage,
    pointers,           \* ids of the pointers that are down
    isDraggingView,
    lastDragCell,       \* Coordinate | null
    \* the startSimulation calls made so far, with what each has done
    runs,
    \* bookkeeping
    edits,              \* calls of modifyConnection
    query               \* SpecPath: the last findPath / route resolution asked

hostVars  == <<appState, currentLevel, loading, isShaking>>
appVars   == <<hostVars, levelEffectPending>>
graphVars == <<connections, edgeColors>>
drawVars  == <<drawMode, activeColor, collisionCell, pointers, isDraggingView,
               lastDragCell>>
simVars   == <<isSimulating, trainPosition, simulationMessage>>
refVars   == <<pointers, isDraggingView, lastDragCell>>
vars      == <<appVars, graphVars, drawVars, simVars, runs, edits, query>>

\* The palette offered by the Board (two of the six TRACK_COLORS).
TRACK_COLORS == <<"#38bdf8", "#f43f5e">>

PointerIds == {1, 2}

\* simulationMessage: string | null
Msg(text) == [text |-> text, from |-> "", to |-> ""]
NoMessage == Msg("null")
BlockedMsg(from, to) == [text |-> "Sin camino", from |-> from, to |-> to]

NoQuery ==
    [kind |-> "none", start |-> NoCell, end |-> NoCell, level |-> NoLevel,
     found |-> FALSE, path |-> << >>, ok |-> FALSE, from |-> "", to |-> "",
     searched |-> << >>]

\* The Board is rendered when
\* (appState === PLAYING || appState === LEVEL_COMPLETE) && currentLevel.
Mounted(as, lvl) == as \in {"PLAYING", "LEVEL_COMPLETE"} /\ lvl # NoLevel

\* The Board's canvas can be reached by a pointer: the LEVEL_COMPLETE overlay
\* covers the whole Board.  The Board's buttons stay in the document and can
\* be activated from the keyboard whenever the Board is mounted.
Reachable == Mounted(appState, currentLevel) /\ appState = "PLAYING"

Init ==
    /\ appState = "MENU"
    /\ currentLevel = NoLevel
    /\ loading = 0
    /\ isShaking = FALSE
    /\ levelEffectPending = FALSE
    /\ connections = EmptyMap
    /\ edgeColors = EmptyMap
    /\ drawMode = "add"
    /\ activeColor = TRACK_COLORS[1]
    /\ collisionCell = NoCell
    /\ isSimulating = FALSE
    /\ trainPosition = NoCell
    /\ simulationMessage = NoMessage
    /\ pointers = {}
    /\ isDraggingView = FALSE
    /\ lastDragCell = NoCell
    /\ runs = << >>
    /\ edits = 0
    /\ query = NoQuery

\* ------------------------------------------------- the Board under the App
\* A run whose Board is unmounted loses its Board for good: its setState calls
\* are ignored.  abandoned records that the host left the run (unmount or level
\* change) before it finished.
Unfinished(r) == r.pc \in {"anim", "final"}

AbandonRuns(rs, unmount) ==
    [k \in DOMAIN rs |->
        IF rs[k].live
        THEN [rs[k] EXCEPT !.live = ~unmount,
                           !.abandoned = @ \/ Unfinished(rs[k])]
        ELSE rs[k]]

\* The state a Board has after useState(...) and the first run of the effects.
BoardFresh ==
    /\ connections' = EmptyMap
    /\ edgeColors' = EmptyMap
    /\ drawMode' = "add"
    /\ activeColor' = TRACK_COLORS[1]
    /\ collisionCell' = NoCell
    /\ isSimulating' = FALSE
    /\ trainPosition' = NoCell
    /\ simulationMessage' = NoMessage
    /\ pointers' = {}
    /\ isDraggingView' = FALSE
    /\ lastDragCell' = NoCell

\* The level-change effect without the reset of the simulation state.
LevelChangeKeepsTrain ==
    /\ connections' = EmptyMap
    /\ edgeColors' = EmptyMap
    /\ drawMode' = "add"
    /\ collisionCell' = NoCell
    /\ UNCHANGED <<isSimulating, trainPosition, simulationMessage>>

\* useEffect(..., [level]): reset game state on level change.
LevelChangeEffect ==
    /\ connections' = EmptyMap
    /\ edgeColors' = EmptyMap
    /\ isSimulating' = FALSE
    /\ trainPosition' = NoCell
    /\ simulationMessage' = NoMessage
    /\ drawMode' = "add"
    /\ collisionCell' = NoCell

\* React runs the passive effects still pending before it renders again.
FlushLevelEffect ==
    /\ IF levelEffectPending THEN LevelChangeEffect
       ELSE UNCHANGED <<graphVars, drawMode, collisionCell, simVars>>
    /\ UNCHANGED <<activeColor, refVars>>

\* The render of the Board that follows the setState calls of one of its
\* handlers, Updates.  A [level] effect still pending runs before that
\* render: its setState calls are queued after the handler's and replace
\* them.
Render(Updates) ==
    /\ levelEffectPending' = FALSE
    /\ IF levelEffectPending THEN LevelChangeEffect ELSE Updates

\* What the re-render of App does to the Board when App's state becomes
\* (as, lvl); newLevel says that setCurrentLevel stored a new level object;
\* rs is the value of runs after the handler's own step.  A Board that
\* stays mounted is committed with the new level prop and the state it has.
\* The [level] effect is passive: after a mount and after a level change it
\* runs in a later task (RunLevelEffect), or before the next render.
RenderBoard(as, lvl, newLevel, rs) ==
    IF ~Mounted(as, lvl)
    THEN /\ BoardFresh
         /\ levelEffectPending' = FALSE
         /\ runs' = AbandonRuns(rs, TRUE)
    ELSE IF ~Mounted(appState, currentLevel)
    THEN /\ BoardFresh
         /\ levelEffectPending' = TRUE
         /\ runs' = rs
    ELSE /\ FlushLevelEffect
         /\ levelEffectPending' = newLevel
         /\ runs' = IF newLevel THEN AbandonRuns(rs, FALSE) ELSE rs

\* The passive effect on [level] of a Board that was mounted, or stayed
\* mounted over a level change, runs in a task of its own.
RunLevelEffect ==
    /\ levelEffectPending
    /\ levelEffectPending' = FALSE
    /\ LevelChangeEffect
    /\ UNCHANGED <<hostVars, activeColor, refVars, runs, edits, query>>

\* -------------------------------------------------------------------- App
\* handleStartGame up to its await: the menu's start button.
handleStartGame ==
    /\ appState = "MENU"
    /\ loading < MaxLoads
    /\ appState' = "LOADING_LEVEL"
    /\ loading' = loading + 1
    /\ RenderBoard("LOADING_LEVEL", currentLevel, FALSE, runs)
    /\ UNCHANGED <<currentLevel, isShaking, edits, query>>

\* handleNextLevel up to its await: the button of the LEVEL_COMPLETE overlay.
handleNextLevel ==
    /\ appState = "LEVEL_COMPLETE"
    /\ loading < MaxLoads
    /\ appState' = "LOADING_LEVEL"
    /\ loading' = loading + 1
    /\ RenderBoard("LOADING_LEVEL", currentLevel, FALSE, runs)
    /\ UNCHANGED <<currentLevel, isShaking, edits, query>>

\* The continuation of handleStartGame and of handleNextLevel once
\* generateLevel has resolved: setCurrentLevel(level); setAppState(PLAYING).
generateLevelResolved(l) ==
    /\ loading > 0
    /\ loading' = loading - 1
    /\ currentLevel' = l
    /\ appState' = "PLAYING"
    /\ RenderBoard("PLAYING", l, TRUE, runs)
    /\ UNCHANGED <<isShaking, edits, query>>

\* handleBackToMenu, from the header (shown while loading) or from the
\* LEVEL_COMPLETE overlay.
handleBackToMenu ==
    /\ appState \in {"LOADING_LEVEL", "LEVEL_COMPLETE"}
    /\ appState' = "MENU"
    /\ RenderBoard("MENU", currentLevel, FALSE, runs)
    /\ UNCHANGED <<currentLevel, loading, isShaking, edits, query>>

\* The Board's exit button: stopTrainLoop(); onExit().
onExit ==
    /\ Mounted(appState, currentLevel)
    /\ appState' = "MENU"
    /\ RenderBoard("MENU", currentLevel, FALSE, runs)
    /\ UNCHANGED <<currentLevel, loading, isShaking, edits, query>>

\* The timer of triggerScreenShake: setIsShaking(false).
ShakeTimeout ==
    /\ isShaking
    /\ isShaking' = FALSE
    /\ FlushLevelEffect
    /\ levelEffectPending' = FALSE
    /\ UNCHANGED <<appState, currentLevel, loading, runs, edits, query>>

\* ------------------------------------------------------------ Board: tools
\* The pencil and eraser buttons.
setDrawMode(m) ==
    /\ Mounted(appState, currentLevel)
    /\ Render(/\ drawMode' = m
              /\ UNCHANGED <<graphVars, collisionCell, simVars>>)
    /\ UNCHANGED <<hostVars, activeColor, refVars, runs, edits, query>>

\* A colour button: setActiveColor(c.hex); setDrawMode('add').
setActiveColor(c) ==
    /\ Mounted(appState, currentLevel)
    /\ activeColor' = c
    /\ Render(/\ drawMode' = "add"
              /\ UNCHANGED <<graphVars, collisionCell, simVars>>)
    /\ UNCHANGED <<hostVars, refVars, runs, edits, query>>

\* A reset button that also puts the tools back: pencil and first colour.
ResetButtonResetsTools ==
    /\ Mounted(appState, currentLevel)
    /\ activeColor' = TRACK_COLORS[1]
    /\ Render(/\ connections' = EmptyMap
              /\ edgeColors' = EmptyMap
              /\ drawMode' = "add"
              /\ UNCHANGED <<collisionCell, simVars>>)
    /\ UNCHANGED <<hostVars, refVars, runs, edits, query>>

\* The reset button: setConnections(new Map()); setEdgeColors(new Map()).
\* The button carries no disabled attribute.
ResetButton ==
    /\ Mounted(appState, currentLevel)
    /\ Render(/\ connections' = EmptyMap
              /\ edgeColors' = EmptyMap
              /\ UNCHANGED <<drawMode, collisionCell, simVars>>)
    /\ UNCHANGED <<hostVars, activeColor, refVars, runs, edits, query>>

\* The timer of the collision effect: setCollisionCell(null).
ClearCollision ==
    /\ Mounted(appState, currentLevel)
    /\ collisionCell # NoCell
    /\ Render(/\ collisionCell' = NoCell
              /\ UNCHANGED <<graphVars, drawMode, simVars>>)
    /\ UNCHANGED <<hostVars, activeColor, refVars, runs, edits, query>>

\* ---------------------------------------------------------- Board: drawing
\* getGridCell after the division by CELL_SIZE: the cell, or null outside.
getGridCell(x, y) ==
    IF x >= 0 /\ x < GRID_SIZE /\ y >= 0 /\ y < GRID_SIZE
    THEN [x |-> x, y |-> y]
    ELSE NoCell

\* The cell indices the pointer positions of the model floor to: the cells of
\* UsedCells and two positions outside the grid.
PointerCells ==
    {<<c.x, c.y>> : c \in UsedCells} \cup {<<0 - 1, 1>>, <<2, GRID_SIZE>>}

\* modifyConnection without the obstacle test on its second cell.
modifyConnectionFirstOnly(c1, c2, mode) ==
    LET level == LevelOf(currentLevel)
        hit   == isObstacle(level, c1.x, c1.y)
    IN /\ isShaking' = IF hit THEN TRUE ELSE isShaking
       /\ Render(/\ IF hit
                    THEN /\ collisionCell' = c1
                         /\ UNCHANGED graphVars
                    ELSE /\ connections' =
                               ConnectionsUpdate(connections, getKey(c1.x, c1.y),
                                                 getKey(c2.x, c2.y), mode)
                         /\ edgeColors' =
                               EdgeColorsUpdate(edgeColors, getEdgeKey(c1, c2),
                                                mode, activeColor)
                         /\ UNCHANGED collisionCell
                 /\ UNCHANGED <<drawMode, simVars>>)

\* modifyConnection(c1, c2, mode) with the Board's level and active colour,
\* and the render its setState calls cause.  onCollision is App's
\* triggerScreenShake, which leaves isShaking true whether or not the screen
\* was already shaking.
modifyConnection(c1, c2, mode) ==
    LET level == LevelOf(currentLevel)
        hit   == isObstacle(level, c1.x, c1.y) \/ isObstacle(level, c2.x, c2.y)
    IN /\ isShaking' = IF hit THEN TRUE ELSE isShaking
       /\ Render(/\ IF hit
                    THEN /\ collisionCell' = IF isObstacle(level, c1.x, c1.y)
                                             THEN c1 ELSE c2
                         /\ UNCHANGED graphVars
                    ELSE /\ connections' =
                               ConnectionsUpdate(connections, getKey(c1.x, c1.y),
                                                 getKey(c2.x, c2.y), mode)
                         /\ edgeColors' =
                               EdgeColorsUpdate(edgeColors, getEdgeKey(c1, c2),
                                                mode, activeColor)
                         /\ UNCHANGED collisionCell
                 /\ UNCHANGED <<drawMode, simVars>>)

handlePointerDown(p, x, y) ==
    /\ Reachable
    /\ p \notin pointers
    /\ pointers' = pointers \cup {p}
    /\ IF Cardinality(pointers') = 2
       THEN /\ isDraggingView' = TRUE
            /\ lastDragCell' = NoCell
       ELSE IF Cardinality(pointers') = 1 /\ ~isSimulating
       THEN /\ isDraggingView' = FALSE
            /\ lastDragCell' = IF getGridCell(x, y) # NoCell
                               THEN getGridCell(x, y) ELSE lastDragCell
       ELSE UNCHANGED <<isDraggingView, lastDragCell>>
    /\ UNCHANGED <<appVars, graphVars, drawMode, activeColor, collisionCell,
                   simVars, runs, edits, query>>

\* PointerMove without the distance test: every move to another cell of the
\* grid edits the graph.
PointerMoveAnyDistance(p, x, y, limit) ==
    LET cell == getGridCell(x, y)
    IN /\ Mounted(appState, currentLevel)
       /\ p \in pointers
       /\ Cardinality(pointers) = 1 /\ ~isDraggingView /\ ~isSimulating
       /\ cell # NoCell /\ lastDragCell # NoCell
       /\ ~(cell.x = lastDragCell.x /\ cell.y = lastDragCell.y)
       /\ edits < limit
       /\ edits' = edits + 1
       /\ modifyConnection(lastDragCell, cell, drawMode)
       /\ lastDragCell' = cell
       /\ UNCHANGED <<appState, currentLevel, loading, activeColor, pointers,
                      isDraggingView, runs, query>>

\* The drawing branch of handlePointerMove (the two-pointer branch pans and
\* zooms the view only).  limit caps the modifyConnection calls explored.
PointerMove(p, x, y, limit) ==
    LET cell == getGridCell(x, y)
    IN /\ Mounted(appState, currentLevel)
       /\ p \in pointers
       /\ Cardinality(pointers) = 1 /\ ~isDraggingView /\ ~isSimulating
       /\ cell # NoCell /\ lastDragCell # NoCell
       /\ ~(cell.x = lastDragCell.x /\ cell.y = lastDragCell.y)
       /\ LET dx == IF cell.x >= lastDragCell.x THEN cell.x - lastDragCell.x
                    ELSE lastDragCell.x - cell.x
              dy == IF cell.y >= lastDragCell.y THEN cell.y - lastDragCell.y
                    ELSE lastDragCell.y - cell.y
          IN IF dx <= 1 /\ dy <= 1
             THEN /\ edits < limit
                  /\ edits' = edits + 1
                  /\ modifyConnection(lastDragCell, cell, drawMode)
             ELSE UNCHANGED <<graphVars, drawMode, collisionCell, simVars,
                              isShaking, levelEffectPending, edits>>
       /\ lastDragCell' = cell
       /\ UNCHANGED <<appState, currentLevel, loading, activeColor, pointers,
                      isDraggingView, runs, query>>

handlePointerMove(p, x, y) == PointerMove(p, x, y, MaxEdits)

\* handlePointerUp, also bound to pointercancel and pointerleave.
handlePointerUp(p) ==
    /\ Mounted(appState, currentLevel)
    /\ p \in pointers
    /\ pointers' = pointers \ {p}
    /\ isDraggingView' = IF Cardinality(pointers') < 2 THEN FALSE ELSE isDraggingView
    /\ lastDragCell' = IF Cardinality(pointers') = 0 THEN NoCell ELSE lastDragCell
    /\ UNCHANGED <<appVars, graphVars, drawMode, activeColor, collisionCell,
                   simVars, runs, edits, query>>

\* --------------------------------------------------------------- simulation
\* What a startSimulation call has done so far.  i is the loop index of the
\* position set last; positions lists the setTrainPosition calls; completed
\* counts the onLevelComplete calls; live says that the Board that started the
\* run is still mounted.
NewRun(pc, path, positions) ==
    [pc |-> pc, path |-> path, i |-> 0, positions |-> positions, completed |-> 0,
     live |-> TRUE, abandoned |-> FALSE]

\* startSimulation setting the train on each segment as soon as the segment is
\* resolved: a run blocked at a later pair has already moved the train.
startSimulationMovesEarly ==
    /\ Mounted(appState, currentLevel)
    /\ ~isSimulating
    /\ Len(runs) < MaxRuns
    /\ LET res == ResolveRoute(LevelOf(currentLevel), connections)
       IN IF ~res.ok
          THEN /\ runs' = Append(runs, NewRun("blocked", << >>, res.fullPath))
               /\ Render(/\ simulationMessage' = BlockedMsg(res.from, res.to)
                         /\ isSimulating' = FALSE
                         /\ trainPosition' = IF Len(res.fullPath) > 0
                                             THEN res.fullPath[Len(res.fullPath)]
                                             ELSE trainPosition
                         /\ UNCHANGED <<graphVars, drawMode, collisionCell>>)
          ELSE IF Len(res.fullPath) > 0
          THEN /\ runs' = Append(runs, NewRun("anim", res.fullPath,
                                              <<res.fullPath[1]>>))
               /\ Render(/\ simulationMessage' = Msg("Salimos!")
                         /\ isSimulating' = TRUE
                         /\ trainPosition' = res.fullPath[1]
                         /\ UNCHANGED <<graphVars, drawMode, collisionCell>>)
          ELSE /\ runs' = Append(runs, NewRun("final", << >>, << >>))
               /\ Render(/\ simulationMessage' = Msg("Llegamos!")
                         /\ isSimulating' = TRUE
                         /\ UNCHANGED trainPosition
                         /\ UNCHANGED <<graphVars, drawMode, collisionCell>>)
    /\ UNCHANGED <<hostVars, activeColor, refVars, edits, query>>

\* startSimulation as a callback memoised at mount: it resolves the route
\* against the connections of the first render, the empty map.
startSimulationStaleGraph ==
    /\ Mounted(appState, currentLevel)
    /\ ~isSimulating
    /\ Len(runs) < MaxRuns
    /\ LET res == ResolveRoute(LevelOf(currentLevel), EmptyMap)
       IN IF ~res.ok
          THEN /\ runs' = Append(runs, NewRun("blocked", << >>, << >>))
               /\ Render(/\ simulationMessage' = BlockedMsg(res.from, res.to)
                         /\ isSimulating' = FALSE
                         /\ UNCHANGED trainPosition
                         /\ UNCHANGED <<graphVars, drawMode, collisionCell>>)
          ELSE IF Len(res.fullPath) > 0
          THEN /\ runs' = Append(runs, NewRun("anim", res.fullPath,
                                              <<res.fullPath[1]>>))
               /\ Render(/\ simulationMessage' = Msg("Salimos!")
                         /\ isSimulating' = TRUE
                         /\ trainPosition' = res.fullPath[1]
                         /\ UNCHANGED <<graphVars, drawMode, collisionCell>>)
          ELSE /\ runs' = Append(runs, NewRun("final", << >>, << >>))
               /\ Render(/\ simulationMessage' = Msg("Llegamos!")
                         /\ isSimulating' = TRUE
                         /\ UNCHANGED trainPosition
                         /\ UNCHANGED <<graphVars, drawMode, collisionCell>>)
    /\ UNCHANGED <<hostVars, activeColor, refVars, edits, query>>

\* startSimulation with an await ahead of the resolution loop: the call that
\* is accepted returns to the scheduler before any pair is resolved.
startSimulationAwaitsFirst ==
    /\ Mounted(appState, currentLevel)
    /\ ~isSimulating
    /\ Len(runs) < MaxRuns
    /\ runs' = Append(runs, NewRun("resolving", << >>, << >>))
    /\ Render(/\ simulationMessage' = Msg("Revisando...")
              /\ isSimulating' = TRUE
              /\ UNCHANGED trainPosition
              /\ UNCHANGED <<graphVars, drawMode, collisionCell>>)
    /\ UNCHANGED <<hostVars, activeColor, refVars, edits, query>>

\* startSimulation up to its first await (or its return when blocked), res
\* being what its resolution loop yields: if (isSimulating) return;
\* setIsSimulating(true); "Revisando..."; then the blocked message and
\* setIsSimulating(false), or "Salimos!" and setTrainPosition(fullPath[0]),
\* or, for an empty path, "Llegamos!".
startSimulationFrom(res) ==
    /\ Mounted(appState, currentLevel)
    /\ ~isSimulating
    /\ Len(runs) < MaxRuns
    /\ IF ~res.ok
       THEN /\ runs' = Append(runs, NewRun("blocked", << >>, << >>))
            /\ Render(/\ simulationMessage' = BlockedMsg(res.from, res.to)
                      /\ isSimulating' = FALSE
                      /\ UNCHANGED trainPosition
                      /\ UNCHANGED <<graphVars, drawMode, collisionCell>>)
       ELSE IF Len(res.fullPath) > 0
       THEN /\ runs' = Append(runs, NewRun("anim", res.fullPath,
                                           <<res.fullPath[1]>>))
            /\ Render(/\ simulationMessage' = Msg("Salimos!")
                      /\ isSimulating' = TRUE
                      /\ trainPosition' = res.fullPath[1]
                      /\ UNCHANGED <<graphVars, drawMode, collisionCell>>)
       ELSE /\ runs' = Append(runs, NewRun("final", << >>, << >>))
            /\ Render(/\ simulationMessage' = Msg("Llegamos!")
                      /\ isSimulating' = TRUE
                      /\ UNCHANGED trainPosition
                      /\ UNCHANGED <<graphVars, drawMode, collisionCell>>)
    /\ UNCHANGED <<hostVars, activeColor, refVars, edits>>

\* startSimulation on the level and the connections of this render.
startSimulation ==
    /\ startSimulationFrom(ResolveRoute(LevelOf(currentLevel), connections))
    /\ UNCHANGED query

\* AnimationTimer with the loop bound fullPath.length - 1: the last element of
\* the path is never set.
AnimationTimerStopsEarly(k) ==
    /\ k \in DOMAIN runs
    /\ runs[k].pc = "anim"
    /\ LET r    == runs[k]
           more == r.i + 2 < Len(r.path)
       IN /\ runs' = IF more
                     THEN [runs EXCEPT ![k].i = r.i + 1,
                                       ![k].positions = Append(@, r.path[r.i + 2])]
                     ELSE [runs EXCEPT ![k].pc = "final"]
          /\ IF r.live
             THEN Render(/\ IF more
                            THEN /\ trainPosition' = r.path[r.i + 2]
                                 /\ UNCHANGED <<simulationMessage, graphVars>>
                            ELSE /\ simulationMessage' = Msg("Llegamos!")
                                 /\ UNCHANGED <<trainPosition, graphVars>>
                         /\ UNCHANGED <<drawMode, collisionCell, isSimulating>>)
             ELSE UNCHANGED <<graphVars, drawMode, collisionCell, simVars,
                              levelEffectPending>>
    /\ UNCHANGED <<hostVars, activeColor, refVars, edits, query>>

\* AnimationTimer of a train that uses up its tracks: at the end of the loop
\* the two maps of a Board still mounted are emptied.
AnimationTimerWipesTracks(k) ==
    /\ k \in DOMAIN runs
    /\ runs[k].pc = "anim"
    /\ LET r    == runs[k]
           more == r.i + 1 < Len(r.path)
       IN /\ runs' = IF more
                     THEN [runs EXCEPT ![k].i = r.i + 1,
                                       ![k].positions = Append(@, r.path[r.i + 2])]
                     ELSE [runs EXCEPT ![k].pc = "final"]
          /\ IF r.live
             THEN Render(/\ IF more
                            THEN /\ trainPosition' = r.path[r.i + 2]
                                 /\ UNCHANGED <<simulationMessage, graphVars>>
                            ELSE /\ simulationMessage' = Msg("Llegamos!")
                                 /\ connections' = EmptyMap
                                 /\ edgeColors' = EmptyMap
                                 /\ UNCHANGED trainPosition
                         /\ UNCHANGED <<drawMode, collisionCell, isSimulating>>)
             ELSE UNCHANGED <<graphVars, drawMode, collisionCell, simVars,
                              levelEffectPending>>
    /\ UNCHANGED <<hostVars, activeColor, refVars, edits, query>>

\* The 120 ms timer of the animation loop fires for run k: the next position,
\* or the end of the loop and the arrival message.
AnimationTimer(k) ==
    /\ k \in DOMAIN runs
    /\ runs[k].pc = "anim"
    /\ LET r    == runs[k]
           more == r.i + 1 < Len(r.path)
       IN /\ runs' = IF more
                     THEN [runs EXCEPT ![k].i = r.i + 1,
                                       ![k].positions = Append(@, r.path[r.i + 2])]
                     ELSE [runs EXCEPT ![k].pc = "final"]
          /\ IF r.live
             THEN Render(/\ IF more
                            THEN /\ trainPosition' = r.path[r.i + 2]
                                 /\ UNCHANGED <<simulationMessage, graphVars>>
                            ELSE /\ simulationMessage' = Msg("Llegamos!")
                                 /\ UNCHANGED <<trainPosition, graphVars>>
                         /\ UNCHANGED <<drawMode, collisionCell, isSimulating>>)
             ELSE UNCHANGED <<graphVars, drawMode, collisionCell, simVars,
                              levelEffectPending>>
    /\ UNCHANGED <<hostVars, activeColor, refVars, edits, query>>

\* CompletionTimer of a loop that checks it is still mounted before it
\* reports: the callback of a Board that is gone does nothing.
CompletionTimerIfMounted(k) ==
    /\ k \in DOMAIN runs
    /\ runs[k].pc = "final"
    /\ runs[k].live
    /\ appState' = "LEVEL_COMPLETE"
    /\ RenderBoard("LEVEL_COMPLETE", currentLevel, FALSE,
                   [runs EXCEPT ![k].pc = "done", ![k].completed = @ + 1])
    /\ UNCHANGED <<currentLevel, loading, isShaking, edits, query>>

\* The 1000 ms timer fires for run k: onLevelComplete(), which is App's
\* handleLevelComplete: setAppState(LEVEL_COMPLETE).
CompletionTimer(k) ==
    /\ k \in DOMAIN runs
    /\ runs[k].pc = "final"
    /\ appState' = "LEVEL_COMPLETE"
    /\ RenderBoard("LEVEL_COMPLETE", currentLevel, FALSE,
                   [runs EXCEPT ![k].pc = "done", ![k].completed = @ + 1])
    /\ UNCHANGED <<currentLevel, loading, isShaking, edits, query>>

\* ------------------------------------------------------------ specification
Next ==
    \/ handleStartGame
    \/ handleNextLevel
    \/ \E l \in LevelIds : generateLevelResolved(l)
    \/ handleBackToMenu
    \/ onExit
    \/ RunLevelEffect
    \/ ShakeTimeout
    \/ \E m \in {"add", "remove"} : setDrawMode(m)
    \/ \E n \in 1..Len(TRACK_COLORS) : setActiveColor(TRACK_COLORS[n])
    \/ ResetButton
    \/ ClearCollision
    \/ \E p \in PointerIds, c \in PointerCells : handlePointerDown(p, c[1], c[2])
    \/ \E p \in PointerIds, c \in PointerCells : handlePointerMove(p, c[1], c[2])
    \/ \E p \in PointerIds : handlePointerUp(p)
    \/ startSimulation
    \/ \E k \in 1..MaxRuns : AnimationTimer(k)
    \/ \E k \in 1..MaxRuns : CompletionTimer(k)

Spec == Init /\ [][Next]_vars

\* ------------------------------------------------ the drawing layer alone
\* A Board freshly mounted on a level, as after handleStartGame and the
\* resolution of generateLevel; then only the drawing tools, the reset button
\* and the two timers act.
InitDraw ==
    /\ appState = "PLAYING"
    /\ currentLevel \in LevelIds
    /\ loading = 0
    /\ isShaking = FALSE
    /\ levelEffectPending = FALSE
    /\ connections = EmptyMap
    /\ edgeColors = EmptyMap
    /\ drawMode = "add"
    /\ activeColor = TRACK_COLORS[1]
    /\ collisionCell = NoCell
    /\ isSimulating = FALSE
    /\ trainPosition = NoCell
    /\ simulationMessage = NoMessage
    /\ pointers = {}
    /\ isDraggingView = FALSE
    /\ lastDragCell = NoCell
    /\ runs = << >>
    /\ edits = 0
    /\ query = NoQuery

NextDraw ==
    \/ ShakeTimeout
    \/ \E m \in {"add", "remove"} : setDrawMode(m)
    \/ \E n \in 1..Len(TRACK_COLORS) : setActiveColor(TRACK_COLORS[n])
    \/ ResetButton
    \/ ClearCollision
    \/ \E p \in PointerIds, c \in PointerCells : handlePointerDown(p, c[1], c[2])
    \/ \E p \in PointerIds, c \in PointerCells :
           PointerMove(p, c[1], c[2], MaxDrawEdits)
    \/ \E p \in PointerIds : handlePointerUp(p)

SpecDraw == InitDraw /\ [][NextDraw]_vars

\* ------------------------------------------- findPath and route resolution
\* On a Board mounted on one of the levels a graph is built by calls of
\* modifyConnection between cells of the block one step apart, as
\* handlePointerMove requires; then findPath is applied to it once, or the
\* start button is pressed once and the timers of that run fire.
InitPath ==
    /\ appState = "PLAYING"
    /\ currentLevel \in AllLevelIds
    /\ loading = 0
    /\ isShaking = FALSE
    /\ levelEffectPending = FALSE
    /\ connections = EmptyMap
    /\ edgeColors = EmptyMap
    /\ drawMode = "add"
    /\ activeColor = TRACK_COLORS[1]
    /\ collisionCell = NoCell
    /\ isSimulating = FALSE
    /\ trainPosition = NoCell
    /\ simulationMessage = NoMessage
    /\ pointers = {}
    /\ isDraggingView = FALSE
    /\ lastDragCell = NoCell
    /\ runs = << >>
    /\ edits = 0
    /\ query = NoQuery

Adjacent(c1, c2) ==
    /\ c1 # c2
    /\ c1.x - c2.x \in {0 - 1, 0, 1}
    /\ c1.y - c2.y \in {0 - 1, 0, 1}

EdgeCount(conn) ==
    Cardinality({<<c1, c2>> \in BlockCells \X BlockCells :
                    /\ getKey(c1.x, c1.y) < getKey(c2.x, c2.y)
                    /\ Includes(Neighbors(conn, getKey(c1.x, c1.y)),
                                getKey(c2.x, c2.y))})

\* One call modifyConnection(c1, c2, drawMode) on the level of the Board.
GraphConnect(c1, c2) ==
    /\ query = NoQuery
    /\ Adjacent(c1, c2)
    /\ edits < MaxGraphEdits
    /\ edits' = edits + 1
    /\ modifyConnection(c1, c2, drawMode)
    /\ UNCHANGED <<appState, currentLevel, loading, activeColor, refVars, runs,
                   query>>

AskFindPath(s, e) ==
    /\ query = NoQuery
    /\ LET res == findPath(s, e, connections)
       IN query' = [NoQuery EXCEPT !.kind = "findPath", !.start = s, !.end = e,
                                   !.found = res.found, !.path = res.path]
    /\ UNCHANGED <<appVars, graphVars, drawVars, simVars, runs, edits>>

\* The start button pressed on the Board: startSimulation up to its first
\* await, with what its resolution loop computed kept in query.
AskResolve ==
    /\ query = NoQuery
    /\ LET res == ResolveRoute(LevelOf(currentLevel), connections)
       IN /\ query' = [NoQuery EXCEPT !.kind = "resolve", !.level = currentLevel,
                                      !.ok = res.ok, !.path = res.fullPath,
                                      !.from = res.from, !.to = res.to,
                                      !.searched = res.searched]
          /\ startSimulationFrom(res)

NextPath ==
    \/ \E c1 \in BlockCells, c2 \in BlockCells : GraphConnect(c1, c2)
    \/ \E s \in UsedCells, e \in UsedCells : AskFindPath(s, e)
    \/ AskResolve
    \/ \E k \in 1..MaxRuns : AnimationTimer(k)
    \/ \E k \in 1..MaxRuns : CompletionTimer(k)

SpecPath == InitPath /\ [][NextPath]_vars

\* The two timers of the run are browser timeouts: each one set fires.
SpecPathLive ==
    SpecPath /\ \A k \in 1..MaxRuns :
                    WF_vars(AnimationTimer(k)) /\ WF_vars(CompletionTimer(k))

\* ------------------------------------------------------- level generator
\* services/levelGenerator.ts.  The station names of each city, written
\* without diacritics.
CITY_DATA(city) ==
    IF city = "Buenos Aires" THEN
        <<"Palermo", "Catedral", "Congreso", "Juramento",
          "Boedo", "Plaza de Mayo", "Peru", "Piedras",
          "Lima", "Saenz Pena", "Pasco", "Alberti",
          "Plaza Miserere", "Loria", "Castro Barros", "Rio de Janeiro",
          "Acoyte", "Primera Junta", "Puan", "Carabobo",
          "Flores", "San Pedrito", "Retiro", "Lavalle",
          "Diag. Norte", "Moreno", "Independencia", "San Juan",
          "Constitucion">>
    ELSE IF city = "Nueva York" THEN
        <<"Times Sq", "Grand Central", "Union Sq", "Fulton St",
          "Wall St", "Canal St", "Chambers St", "Houston St",
          "Christopher St", "Penn Station", "34th St", "42nd St",
          "50th St", "59th St", "66th St", "72nd St",
          "79th St", "86th St", "96th St", "103rd St",
          "Harlem", "Bronx Park">>
    ELSE IF city = "Londres" THEN
        <<"Waterloo", "Victoria", "King's Cross", "Paddington",
          "Liverpool St", "Bank", "London Bridge", "Canary Wharf",
          "Stratford", "Oxford Circus", "Bond St", "Baker St",
          "Westminster", "Green Park", "South Kensington", "Piccadilly Circus",
          "Leicester Sq", "Covent Garden", "Holborn", "St. Paul's">>
    ELSE IF city = "Paris" THEN
        <<"Gare du Nord", "Gare de Lyon", "Chatelet", "Montparnasse",
          "Saint-Lazare", "Bastille", "Republique", "Opera",
          "Concorde", "Etoile", "Nation", "Saint-Michel",
          "Invalides", "Trocadero", "Bercy", "Austerlitz",
          "Pigalle", "Anvers", "Abbesses", "Clichy">>
    ELSE IF city = "Tokio" THEN
        <<"Shinjuku", "Shibuya", "Ikebukuro", "Tokyo",
          "Ueno", "Shinagawa", "Akihabara", "Ginza",
          "Roppongi", "Asakusa", "Harajuku", "Ebisu",
          "Meguro", "Gotanda", "Osaki", "Hamamatsucho",
          "Shimbashi", "Yurakucho", "Kanda", "Otemachi">>
    ELSE IF city = "Berlin" THEN
        <<"Alexanderplatz", "Potsdamer Platz", "Hauptbahnhof", "Zoologischer Garten",
          "Friedrichstrasse", "Wittenbergplatz", "Hermannplatz", "Kottbusser Tor",
          "Warschauer Strasse", "Stadtmitte">>
    ELSE IF city = "Madrid" THEN
        <<"Sol", "Atocha", "Chamartin", "Nuevos Ministerios",
          "Plaza de Espana", "Moncloa", "Principe Pio", "Goya",
          "Avenida de America", "Gregorio Maranon">>
    ELSE << >>

Cities ==
    {"Buenos Aires", "Nueva York", "Londres", "Paris", "Tokio", "Berlin",
     "Madrid", "Roma"}

\* The difficulties App passes: progress[selectedCity] || 1, and
\* Math.min(difficulty + 1, 5).
Difficulties == 1..5

MAX_GRID == 14
MAX_STATIONS == 10
BASE_OBSTACLES == 6
MAX_ATTEMPTS == 50

\* Math.random() returns r / RandomSteps for an r of 0..(RandomSteps - 1).
RandomSteps == 60

\* The sources of random numbers explored: the n-th call of Math.random()
\* (n from 0) returns a term of an arithmetic progression modulo RandomSteps
\* whose step is prime to it, each term returned hold times.
Seeds == [add : 0..MaxSeed, mul : {7, 11}, hold : {1, 2}]

Random(seed, n) == (seed.add + seed.mul * (n \div seed.hold)) % RandomSteps

\* getRandomInt(min, max) for the value r / RandomSteps of Math.random():
\* Math.floor(Math.random() * (max - min + 1)) + min
getRandomInt(r, min, max) == ((r * (max - min + 1)) \div RandomSteps) + min

\* The comparator () => 0.5 - Math.random() at the n-th call of
\* Math.random(): its result is negative.
Negative(seed, n) == 2 * Random(seed, n) > RandomSteps

\* Array.prototype.sort with that comparator, as the engine sorts an array of
\* fewer than 64 elements: the initial run (ascending, or strictly descending
\* and then reversed) is counted with one comparison per element, and every
\* later element is inserted by binary search.  Index i of the code is
\* element i + 1 of the sequence.
RECURSIVE CountRun(_, _, _, _, _)
CountRun(seed, n, idx, high, isDescending) ==
    IF ~(idx < high) THEN [runLength |-> idx, n |-> n]
    ELSE IF Negative(seed, n) # isDescending
         THEN [runLength |-> idx, n |-> n + 1]
         ELSE CountRun(seed, n + 1, idx + 1, high, isDescending)

Reverse(a) == [i \in 1..Len(a) |-> a[Len(a) + 1 - i]]

RECURSIVE BinarySearch(_, _, _, _)
BinarySearch(seed, n, left, right) ==
    IF ~(left < right) THEN [left |-> left, n |-> n]
    ELSE LET mid == left + ((right - left) \div 2)
         IN IF Negative(seed, n)
            THEN BinarySearch(seed, n + 1, left, mid)
            ELSE BinarySearch(seed, n + 1, mid + 1, right)

\* st = [a, n]
RECURSIVE BinaryInsertionSort(_, _, _, _)
BinaryInsertionSort(seed, st, start, high) ==
    IF ~(start < high) THEN st
    ELSE LET found == BinarySearch(seed, st.n, 0, start)
             pivot == st.a[start + 1]
         IN BinaryInsertionSort(seed,
               [a |-> SubSeq(st.a, 1, found.left) \o <<pivot>>
                         \o SubSeq(st.a, found.left + 1, start)
                         \o SubSeq(st.a, start + 2, Len(st.a)),
                n |-> found.n],
               start + 1, high)

SortRandomly(seed, a) ==
    IF Len(a) < 2 THEN [a |-> a, n |-> 0]
    ELSE LET isDescending == Negative(seed, 0)
             run == CountRun(seed, 1, 2, Len(a), isDescending)
             b   == IF isDescending
                    THEN Reverse(SubSeq(a, 1, run.runLength))
                            \o SubSeq(a, run.runLength + 1, Len(a))
                    ELSE a
         IN BinaryInsertionSort(seed, [a |-> b, n |-> run.n], run.runLength,
                                Len(a))

\* available.sort(() => 0.5 - Math.random()).slice(0, count), with the number
\* of calls of Math.random() the sort has made.
shuffledNames(seed, allStations, count) ==
    LET sorted == SortRandomly(seed, allStations)
    IN [names |-> SubSeq(sorted.a, 1, count), n |-> sorted.n]

\* The do-while of a station: draw x and y in 1..MAX_GRID-1 until the cell
\* is not in usedCoords.  n counts the calls of Math.random().
RECURSIVE DrawStationCell(_, _, _)
DrawStationCell(seed, n, usedCoords) ==
    LET x   == getRandomInt(Random(seed, n), 1, MAX_GRID - 1)
        y   == getRandomInt(Random(seed, n + 1), 1, MAX_GRID - 1)
        key == getKey(x, y)
    IN IF key \in usedCoords
       THEN DrawStationCell(seed, n + 2, usedCoords)
       ELSE [x |-> x, y |-> y, key |-> key, n |-> n + 2]

\* shuffledNames.map((name, index) => ...), index from 0.
\* st = [n, usedCoords, stations].
RECURSIVE PlaceStations(_, _, _, _)
PlaceStations(seed, names, index, st) ==
    IF ~(index < Len(names)) THEN st
    ELSE LET c == DrawStationCell(seed, st.n, st.usedCoords)
         IN PlaceStations(seed, names, index + 1,
               [n          |-> c.n,
                usedCoords |-> st.usedCoords \cup {c.key},
                stations   |-> Append(st.stations,
                                  [id   |-> "s-" \o ToString(index),
                                   name |-> names[index + 1],
                                   x    |-> c.x,
                                   y    |-> c.y])])

obstacleTypes == <<"OBSTACLE_WATER", "OBSTACLE_FOSSIL", "OBSTACLE_TUNNEL">>

\* The do-while of an obstacle: draw x and y in 0..MAX_GRID, count the
\* attempt, and repeat while the cell is used and attempts < 50.
RECURSIVE DrawObstacleCell(_, _, _, _)
DrawObstacleCell(seed, n, usedCoords, attempts) ==
    LET x   == getRandomInt(Random(seed, n), 0, MAX_GRID)
        y   == getRandomInt(Random(seed, n + 1), 0, MAX_GRID)
        key == getKey(x, y)
    IN IF key \in usedCoords /\ attempts + 1 < MAX_ATTEMPTS
       THEN DrawObstacleCell(seed, n + 2, usedCoords, attempts + 1)
       ELSE [x |-> x, y |-> y, key |-> key, attempts |-> attempts + 1,
             n |-> n + 2]

\* PlaceObstacles with the test attempts <= 50: the cell of the 50th draw is
\* taken whether it is used or not.
RECURSIVE PlaceObstaclesLastDraw(_, _, _, _)
PlaceObstaclesLastDraw(seed, i, obstacleCount, st) ==
    IF ~(i < obstacleCount) THEN st
    ELSE LET c == DrawObstacleCell(seed, st.n, st.usedCoords, 0)
         IN IF c.attempts <= MAX_ATTEMPTS
            THEN PlaceObstaclesLastDraw(seed, i + 1, obstacleCount,
                  [n          |-> c.n + 1,
                   usedCoords |-> st.usedCoords \cup {c.key},
                   obstacles  |-> Append(st.obstacles,
                        [type |-> obstacleTypes[
                                     getRandomInt(Random(seed, c.n), 0, 2) + 1],
                         x    |-> c.x,
                         y    |-> c.y])])
            ELSE PlaceObstaclesLastDraw(seed, i + 1, obstacleCount,
                                        [st EXCEPT !.n = c.n])

\* The for-loop over the obstacles, i from 0.  st = [n, usedCoords, obstacles].
RECURSIVE PlaceObstacles(_, _, _, _)
PlaceObstacles(seed, i, obstacleCount, st) ==
    IF ~(i < obstacleCount) THEN st
    ELSE LET c == DrawObstacleCell(seed, st.n, st.usedCoords, 0)
         IN IF c.attempts < MAX_ATTEMPTS
            THEN PlaceObstacles(seed, i + 1, obstacleCount,
                  [n          |-> c.n + 1,
                   usedCoords |-> st.usedCoords \cup {c.key},
                   obstacles  |-> Append(st.obstacles,
                        [type |-> obstacleTypes[
                                     getRandomInt(Random(seed, c.n), 0, 2) + 1],
                         x    |-> c.x,
                         y    |-> c.y])])
            ELSE PlaceObstacles(seed, i + 1, obstacleCount,
                                [st EXCEPT !.n = c.n])

\* DrawNextIdx that takes the first index drawn.
DrawNextIdxFirst(seed, n, count, routeIndices) ==
    [idx |-> getRandomInt(Random(seed, n), 0, count - 1), n |-> n + 1]

\* The do-while of a route index: draw until the index is not in the route.
RECURSIVE DrawNextIdx(_, _, _, _)
DrawNextIdx(seed, n, count, routeIndices) ==
    LET nextIdx == getRandomInt(Random(seed, n), 0, count - 1)
    IN IF Includes(routeIndices, nextIdx)
       THEN DrawNextIdx(seed, n + 1, count, routeIndices)
       ELSE [idx |-> nextIdx, n |-> n + 1]

\* The for-loop of the route, i from 1.  st = [n, routeIndices].
RECURSIVE RouteLoop(_, _, _, _, _)
RouteLoop(seed, i, routeLength, count, st) ==
    IF ~(i < routeLength) THEN st
    ELSE LET d == DrawNextIdx(seed, st.n, count, st.routeIndices)
         IN RouteLoop(seed, i + 1, routeLength, count,
                      [n |-> d.n, routeIndices |-> Append(st.routeIndices, d.idx)])

\* The route indices: a random start, routeLength - 1 further indices, and
\* the first index again for difficulty 5.
routeIndices(seed, n, difficulty, count) ==
    LET routeLength == IF difficulty + 2 < count THEN difficulty + 2 ELSE count
        currentIdx  == getRandomInt(Random(seed, n), 0, count - 1)
        picked      == RouteLoop(seed, 1, routeLength, count,
                          [n |-> n + 1, routeIndices |-> <<currentIdx>>]).routeIndices
    IN IF difficulty = 5 THEN Append(picked, picked[1]) ELSE picked

\* stations.find(s => s.id === id)?.name
NameOf(stations, id) ==
    IF FindStation(stations, id) = 0 THEN "undefined"
    ELSE stations[FindStation(stations, id)].name

description(difficulty, startName, endName) ==
    IF difficulty = 1
    THEN "Llevame de " \o startName \o " a " \o endName \o ". Cortito y al pie!"
    ELSE IF difficulty < 4
    THEN "Tengo que ir de " \o startName \o " a " \o endName
            \o ", pero pasa por las estaciones que te marque."
    ELSE "Que lio! Quieren ir de " \o startName \o " a " \o endName
            \o " dando toda una vuelta. Ojo con los tuneles viejos."

\* generateLevel(city, difficulty) with the random numbers of seed.
generateLevel(city, difficulty, seed) ==
    LET allStations == IF CITY_DATA(city) # << >> THEN CITY_DATA(city)
                       ELSE CITY_DATA("Buenos Aires")
        count       == IF MAX_STATIONS < Len(allStations) THEN MAX_STATIONS
                       ELSE Len(allStations)
        shuffled    == shuffledNames(seed, allStations, count)
        placed      == PlaceStations(seed, shuffled.names, 0,
                          [n |-> shuffled.n, usedCoords |-> {},
                           stations |-> << >>])
        blocked     == PlaceObstacles(seed, 0, BASE_OBSTACLES + difficulty,
                          [n |-> placed.n, usedCoords |-> placed.usedCoords,
                           obstacles |-> << >>])
        indices     == routeIndices(seed, blocked.n, difficulty,
                                    Len(placed.stations))
        routeRequest == [i \in 1..Len(indices) |-> "s-" \o ToString(indices[i])]
    IN [city         |-> city,
        difficulty   |-> difficulty,
        description  |-> description(difficulty,
                            NameOf(placed.stations, routeRequest[1]),
                            NameOf(placed.stations,
                                   routeRequest[Len(routeRequest)])),
        stations     |-> placed.stations,
        obstacles    |-> blocked.obstacles,
        routeRequest |-> routeRequest]

\* One call of generateLevel; query holds the LevelConfig returned.
AskGenerateLevel(city, difficulty, seed) ==
    /\ query.kind = "none"
    /\ query' = [kind |-> "generateLevel",
                 level |-> generateLevel(city, difficulty, seed)]
    /\ UNCHANGED <<appVars, graphVars, drawVars, simVars, runs, edits>>

NextGen ==
    \E city \in Cities, difficulty \in Difficulties, seed \in Seeds :
        AskGenerateLevel(city, difficulty, seed)

SpecGen == Init /\ [][NextGen]_vars

\* =================================================================== claims
\* Definitions the claims are stated with; none of them is used by the model.
NeighborSet(conn, k) == {Neighbors(conn, k)[i] : i \in 1..Len(Neighbors(conn, k))}

HasEdge(conn, a, b) == b \in NeighborSet(conn, a)

\* The keys that occur in conn.
Keys ==
    (DOMAIN connections)
        \cup UNION {NeighborSet(connections, k) : k \in DOMAIN connections}

\* The edge keys of the edges of conn.
EdgeKeysOf(conn) ==
    {e \in Keys \X Keys : e[1] <= e[2] /\ (HasEdge(conn, e[1], e[2])
                                           \/ HasEdge(conn, e[2], e[1]))}

\* The keys reachable from the frontier along edges, layer by layer.
RECURSIVE ReachFrom(_, _, _)
ReachFrom(conn, seen, frontier) ==
    IF frontier = {} THEN seen
    ELSE LET next == UNION {NeighborSet(conn, a) : a \in frontier} \ seen
         IN ReachFrom(conn, seen \cup next, next)

Connected(conn, a, b) == b \in ReachFrom(conn, {a}, {a})

\* The least number of edges of an edge path from the frontier to b; -1 if none.
RECURSIVE DistFrom(_, _, _, _, _)
DistFrom(conn, seen, frontier, b, d) ==
    IF b \in frontier THEN d
    ELSE IF frontier = {} THEN 0 - 1
    ELSE LET next == UNION {NeighborSet(conn, a) : a \in frontier} \ seen
         IN DistFrom(conn, seen \cup next, next, b, d + 1)

Distance(conn, a, b) == DistFrom(conn, {a}, {a}, b, 0)

KeyOf(c) == getKey(c.x, c.y)

\* A step of the behaviour that is one call modifyConnection(lastDragCell,
\* lastDragCell', drawMode).
ModifyStep == edits' = edits + 1

ObstacleCell(c) == isObstacle(LevelOf(currentLevel), c.x, c.y)

\* C1: the track graph is symmetric after any sequence of connect, disconnect
\* and clear: b is a neighbour of a exactly when a is a neighbour of b.
C1_Symmetry ==
    \A a \in Keys, b \in Keys :
        HasEdge(connections, a, b) <=> HasEdge(connections, b, a)

\* An edge is present after another one was removed.
C1_Witness ==
    /\ edits >= 3
    /\ \E a \in Keys, b \in Keys : HasEdge(connections, a, b)
    /\ \E k \in DOMAIN connections : connections[k] = << >>

\* C2: a connect or disconnect request with an obstacle endpoint leaves the
\* adjacency map and the edge-colour map unchanged, sets collisionCell to the
\* obstacle endpoint and invokes onCollision (the screen shakes).
C2_ObstacleRejected ==
    [][(ModifyStep /\ (ObstacleCell(lastDragCell) \/ ObstacleCell(lastDragCell')))
         => /\ connections' = connections
            /\ edgeColors' = edgeColors
            /\ collisionCell' \in {lastDragCell, lastDragCell'}
            /\ ObstacleCell(collisionCell')
            /\ isShaking']_vars

\* A collision was signalled while the graph holds an edge.
C2_Witness ==
    /\ collisionCell # NoCell
    /\ ObstacleCell(collisionCell)
    /\ isShaking
    /\ DOMAIN edgeColors # {}

\* C3: in every reachable state no edge of the track graph has an endpoint on
\* an obstacle cell of the current level.
C3_NoEdgeOnObstacle ==
    currentLevel # NoLevel =>
        /\ \A a \in Keys, b \in Keys :
              HasEdge(connections, a, b) =>
                  ~ObstacleCell(parseKey(a)) /\ ~ObstacleCell(parseKey(b))
        /\ \A e \in DOMAIN edgeColors :
              ~ObstacleCell(parseKey(e[1])) /\ ~ObstacleCell(parseKey(e[2]))

\* C4: the keys of the edge-colour map are exactly the edges of the track
\* graph.
C4_ColorsMatchEdges == DOMAIN edgeColors = EdgeKeysOf(connections)

\* An edge drawn in the second colour is present after another edge was removed.
C4_Witness ==
    /\ \E e \in DOMAIN edgeColors : edgeColors[e] = TRACK_COLORS[2]
    /\ \E k \in DOMAIN connections : connections[k] = << >>
    /\ drawMode = "remove"

\* The route of the level asked about, as station indices (0 where an id
\* names no station), and the coordinates of the stations.
RouteStations(level) ==
    [n \in 1..Len(level.routeRequest) |->
        FindStation(level.stations, level.routeRequest[n])]

StationCell(level, n) ==
    [x |-> level.stations[n].x, y |-> level.stations[n].y]

\* ws[i..] are met in this order from path[j] on; equal consecutive waypoints
\* may be met by the same element of the path.
RECURSIVE VisitsFrom(_, _, _, _)
VisitsFrom(ws, i, path, j) ==
    IF i > Len(ws) THEN TRUE
    ELSE \E m \in j..Len(path) :
            path[m] = ws[i] /\ VisitsFrom(ws, i + 1, path, m)

\* C5: when route resolution in startSimulation succeeds for a route whose
\* ids all name stations, consecutive cells of the full path, which is the
\* path the accepted run walks, are identical or joined by an edge of the
\* graph used, and the path meets the route's stations in route order.
C5_PathValid ==
    LET level == LevelOf(query.level)
        rs    == RouteStations(level)
        ws    == [n \in 1..Len(rs) |-> StationCell(level, rs[n])]
    IN (query.kind = "resolve" /\ query.ok /\ \A n \in 1..Len(rs) : rs[n] # 0)
         => /\ \A k \in DOMAIN runs : runs[k].path = query.path
            /\ \A n \in 1..(Len(query.path) - 1) :
                  \/ query.path[n] = query.path[n + 1]
                  \/ HasEdge(connections, KeyOf(query.path[n]),
                             KeyOf(query.path[n + 1]))
            /\ VisitsFrom(ws, 1, query.path, 1)

\* C6: for distinct cells joined by some edge path findPath returns a path from
\* start to end along edges whose number of edges is the least possible; it
\* returns null exactly when there is no edge path.
C6_ShortestPath ==
    (query.kind = "findPath" /\ query.start # query.end) =>
        LET s == KeyOf(query.start)
            e == KeyOf(query.end)
            p == query.path
        IN /\ query.found <=> Connected(connections, s, e)
           /\ query.found =>
                 /\ p[1] = query.start
                 /\ p[Len(p)] = query.end
                 /\ \A n \in 1..(Len(p) - 1) :
                        HasEdge(connections, KeyOf(p[n]), KeyOf(p[n + 1]))
                 /\ Len(p) - 1 = Distance(connections, s, e)

\* A path of two edges was returned on a graph of four edges, where a longer
\* edge path between the same cells exists as well.
C6_Witness ==
    /\ query.kind = "findPath"
    /\ query.found
    /\ Len(query.path) = 3
    /\ EdgeCount(connections) = 4

\* The pairs of the route (by the loop index i, from 0) whose two ids name
\* stations, and those of them with no connecting edge path.
ValidPairs(level) ==
    {i \in 0..(Len(level.routeRequest) - 2) :
        RouteStations(level)[i + 1] # 0 /\ RouteStations(level)[i + 2] # 0}

BlockedPairs(level, conn) ==
    {i \in ValidPairs(level) :
        ~Connected(conn, KeyOf(StationCell(level, RouteStations(level)[i + 1])),
                         KeyOf(StationCell(level, RouteStations(level)[i + 2])))}

RECURSIVE Ascending(_)
Ascending(S) ==
    IF S = {} THEN << >>
    ELSE LET m == CHOOSE v \in S : \A w \in S : v <= w
         IN <<m>> \o Ascending(S \ {m})

\* C7: when some consecutive pair of route stations has no connecting edge
\* path, resolution fails naming the first such pair in route order, and no
\* later pair is searched: the start ends blocked, with the message naming
\* that pair, isSimulating false and no train position set.
C7_FirstBlockedPair ==
    LET level   == LevelOf(query.level)
        blocked == BlockedPairs(level, connections)
    IN (query.kind = "resolve" /\ blocked # {}) =>
         LET i    == CHOOSE v \in blocked : \A w \in blocked : v <= w
             from == level.stations[RouteStations(level)[i + 1]].name
             to   == level.stations[RouteStations(level)[i + 2]].name
         IN /\ ~query.ok
            /\ query.from = from
            /\ query.to = to
            /\ query.searched = Ascending({j \in ValidPairs(level) : j <= i})
            /\ Len(runs) = 1
            /\ runs[1].pc = "blocked"
            /\ runs[1].positions = << >>
            /\ simulationMessage = BlockedMsg(from, to)
            /\ ~isSimulating
            /\ trainPosition = NoCell

\* The start was blocked at a pair that is not the first one, with a later
\* pair left, and the Board shows the blocked message.
C7_Witness ==
    /\ query.kind = "resolve"
    /\ ~query.ok
    /\ Len(query.searched) = 2
    /\ Len(LevelOf(query.level).routeRequest) = 4
    /\ Len(runs) = 1
    /\ runs[1].pc = "blocked"
    /\ simulationMessage.text = "Sin camino"
    /\ ~isSimulating

\* C8: once the host has abandoned a run (the Board was unmounted or the level
\* changed before the run finished) the run sets no further train position and
\* does not invoke onLevelComplete.
C8_AbandonedRunIsSilent ==
    [][\A k \in DOMAIN runs :
          runs[k].abandoned =>
              /\ runs'[k].positions = runs[k].positions
              /\ runs'[k].completed = runs[k].completed]_vars

\* C9: while isSimulating is true no input changes the adjacency map or the
\* edge-colour map.
C9_NoEditWhileSimulating ==
    [][(isSimulating /\ isSimulating')
          => (connections' = connections /\ edgeColors' = edgeColors)]_vars

\* The timers of a run are browser timeouts: each one set fires, whatever has
\* happened to the Board since.
SpecLive ==
    Spec /\ \A k \in 1..MaxRuns :
                WF_vars(AnimationTimer(k)) /\ WF_vars(CompletionTimer(k))

\* The positions a run has set so far are the first elements of its path in
\* path order, all of them once the loop has ended, and onLevelComplete has
\* been invoked once when the run is done and not before.
RunFollowsPath ==
    \A k \in DOMAIN runs :
        LET r == runs[k]
        IN r.pc # "blocked" =>
              /\ Len(r.positions) <= Len(r.path)
              /\ \A n \in 1..Len(r.positions) : r.positions[n] = r.path[n]
              /\ r.pc = "anim" => Len(r.positions) = r.i + 1
              /\ r.pc \in {"final", "done"} => r.positions = r.path
              /\ r.completed = IF r.pc = "done" THEN 1 ELSE 0

\* C10: in a run whose resolution succeeded the positions set are the elements
\* of the resolved path in path order, each once; onLevelComplete is invoked
\* exactly once, and only after the last element has been set.
C10_PositionsFollowPath ==
    /\ []RunFollowsPath
    /\ \A k \in 1..MaxRuns :
          (k \in DOMAIN runs /\ runs[k].pc \in {"anim", "final"})
              ~> (k \in DOMAIN runs /\ runs[k].pc = "done")

\* A run over the five cells of LevelB's round trip has completed.
C10_Witness ==
    \E k \in DOMAIN runs :
        /\ runs[k].pc = "done"
        /\ runs[k].completed = 1
        /\ Len(runs[k].path) = 5
        /\ runs[k].positions = runs[k].path

\* A step that is a startSimulation call ending blocked.
BlockedStart == Len(runs') = Len(runs) + 1 /\ runs'[Len(runs')].pc = "blocked"

\* The [level] effect the host left pending runs in this step.
LevelEffectStep == levelEffectPending /\ ~levelEffectPending'

\* C11: a run that ends blocked sets no train position and never invokes
\* onLevelComplete: the call that finds the route blocked leaves the train and
\* the App where they were and shows the blocked message only (or, when the
\* host's pending level effect runs in the render of that call, no train and
\* no message); a run that has set a position or completed is not a blocked
\* one.
C11_BlockedRunIsSilent ==
    /\ [](\A k \in DOMAIN runs :
             runs[k].pc = "blocked" =>
                 runs[k].positions = << >> /\ runs[k].completed = 0)
    /\ [][BlockedStart =>
             /\ appState' = appState
             /\ ~isSimulating'
             /\ IF LevelEffectStep
                THEN trainPosition' = NoCell /\ simulationMessage' = NoMessage
                ELSE /\ trainPosition' = trainPosition
                     /\ simulationMessage'.text = "Sin camino"]_vars

\* On LevelB a run was blocked at the second pair, the first being connected.
C11_Witness ==
    /\ currentLevel = "B"
    /\ \E k \in DOMAIN runs : runs[k].pc = "blocked"
    /\ HasEdge(connections, getKey(1, 1), getKey(2, 1))
    /\ simulationMessage = BlockedMsg("Catedral", "Congreso")

\* The step leaves the neighbour set of every cell and every edge colour as
\* they were.
SameGraph ==
    /\ \A k \in Keys \cup Keys' :
          NeighborSet(connections', k) = NeighborSet(connections, k)
    /\ edgeColors' = edgeColors

\* The edge between the two cells is present (absent) before the step.
EdgePresent(c1, c2) ==
    /\ HasEdge(connections, KeyOf(c1), KeyOf(c2))
    /\ HasEdge(connections, KeyOf(c2), KeyOf(c1))

EdgeAbsent(c1, c2) ==
    /\ ~HasEdge(connections, KeyOf(c1), KeyOf(c2))
    /\ ~HasEdge(connections, KeyOf(c2), KeyOf(c1))

\* C12: connect is idempotent and disconnect of an absent edge is a no-op: a
\* connect of an edge that is present in the active colour, which is what a
\* second connect with the same colour meets, changes no neighbour set and no
\* edge colour, and neither does a disconnect of an edge that is absent.
C12_Idempotent ==
    [][(ModifyStep /\ ~ObstacleCell(lastDragCell) /\ ~ObstacleCell(lastDragCell'))
         => /\ (/\ drawMode = "add"
                /\ EdgePresent(lastDragCell, lastDragCell')
                /\ getEdgeKey(lastDragCell, lastDragCell') \in DOMAIN edgeColors
                /\ edgeColors[getEdgeKey(lastDragCell, lastDragCell')] = activeColor)
               => SameGraph
            /\ (drawMode = "remove" /\ EdgeAbsent(lastDragCell, lastDragCell'))
               => SameGraph]_vars

\* Three edits have left a single edge, in the active colour, and cells whose
\* neighbour list is empty: an edge was drawn more than once or an absent edge
\* was erased, and the pointer rests on an end of the edge.
C12_Witness ==
    /\ edits >= 3
    /\ Cardinality(DOMAIN edgeColors) = 1
    /\ \A e \in DOMAIN edgeColors : edgeColors[e] = activeColor
    /\ \E k \in DOMAIN connections : connections[k] = << >>
    /\ lastDragCell # NoCell
    /\ \E e \in DOMAIN edgeColors : KeyOf(lastDragCell) \in {e[1], e[2]}
    /\ collisionCell = NoCell

\* C13: for a route request of exactly one station id the resolution yields
\* the one-element path holding that station's cell, and the run has set the
\* train on that cell when its animation loop is over, so that the train
\* stands there when onLevelComplete is invoked.
C13_SingleStationPath ==
    LET level == LevelOf(query.level)
        rs    == RouteStations(level)
    IN (query.kind = "resolve" /\ Len(rs) = 1 /\ rs[1] # 0)
         => LET cell == StationCell(level, rs[1])
            IN /\ query.ok
               /\ query.path = <<cell>>
               /\ \A k \in DOMAIN runs :
                     /\ runs[k].path = <<cell>>
                     /\ runs[k].pc \in {"final", "done"}
                           => /\ runs[k].positions = <<cell>>
                              /\ trainPosition = cell

\* C14: once the last run started on the mounted Board has completed, the
\* Board accepts a fresh start: startSimulation's guard (isSimulating) is open.
C14_RestartAfterCompleted ==
    \A k \in DOMAIN runs :
        (k = Len(runs) /\ runs[k].pc = "done" /\ runs[k].live
            /\ Mounted(appState, currentLevel))
            => ~isSimulating

\* C15: a blocked outcome is recoverable: after a run ends blocked the Board
\* accepts start again (isSimulating is false), and every start resolves the
\* route against the connections of the moment of that start: the run is
\* blocked exactly when that graph leaves a pair unconnected, and otherwise
\* walks the path resolved on that graph.
C15_BlockedIsRecoverable ==
    /\ [](\A k \in DOMAIN runs :
             (k = Len(runs) /\ runs[k].pc = "blocked" /\ runs[k].live
                 /\ Mounted(appState, currentLevel))
                 => ~isSimulating)
    /\ [][Len(runs') = Len(runs) + 1 =>
             LET res == ResolveRoute(LevelOf(currentLevel), connections)
                 r   == runs'[Len(runs')]
             IN /\ (r.pc = "blocked") <=> ~res.ok
                /\ res.ok => r.path = res.fullPath]_vars

\* On one Board a first run was blocked and, after edits, a second run found
\* the route.
C15_Witness ==
    /\ Len(runs) = 2
    /\ runs[1].pc = "blocked" /\ runs[1].live
    /\ runs[2].pc # "blocked" /\ runs[2].live
    /\ Len(runs[2].path) >= 2

\* A step in which App stores a new level: the continuation of
\* handleStartGame or of handleNextLevel.
LevelChangeStep == loading' = loading - 1

\* Both maps are empty and the simulation state is idle.
BoardReset ==
    /\ connections = EmptyMap
    /\ edgeColors = EmptyMap
    /\ ~isSimulating
    /\ trainPosition = NoCell
    /\ simulationMessage = NoMessage

\* C16: on every level change both maps of the Board are reset to empty and
\* the simulation state is idle again, whatever the state before the change:
\* the step that stores the level mounts a reset Board or leaves the [level]
\* effect of the mounted Board pending, and the step in which a pending
\* effect is gone leaves the Board reset.
C16_LevelChangeResets ==
    /\ [][LevelChangeStep => (levelEffectPending' \/ BoardReset')]_vars
    /\ [][(levelEffectPending /\ ~levelEffectPending') => BoardReset']_vars

\* The level changed under a mounted Board while a run was moving the train
\* over drawn tracks, and the Board is empty and idle.
C16_Witness ==
    /\ \E k \in DOMAIN runs :
          runs[k].live /\ runs[k].abandoned /\ Len(runs[k].path) >= 2
    /\ ~levelEffectPending
    /\ connections = EmptyMap
    /\ edgeColors = EmptyMap
    /\ ~isSimulating
    /\ trainPosition = NoCell
    /\ simulationMessage = NoMessage

\* A step in which the tracks of a Board that stays mounted on its level are
\* wiped by the player: the reset button (modifyConnection never removes a key
\* of the map, and the [level] effect is not running).
ClearStep ==
    /\ connections # EmptyMap
    /\ connections' = EmptyMap
    /\ UNCHANGED <<appState, currentLevel, loading, levelEffectPending>>

\* C17: clear empties the adjacency map and the edge-colour map and changes
\* nothing else: level (stations, obstacles, route request), draw mode, active
\* colour and simulation state stay as they were.
C17_ClearFrame ==
    [][ClearStep =>
          /\ edgeColors' = EmptyMap
          /\ UNCHANGED <<currentLevel, drawMode, activeColor, collisionCell,
                         isSimulating, trainPosition, simulationMessage, runs>>]_vars

\* The tracks were wiped with the eraser and the second colour selected while
\* the train was moving.
C17_Witness ==
    /\ Mounted(appState, currentLevel)
    /\ connections = EmptyMap
    /\ edgeColors = EmptyMap
    /\ isSimulating
    /\ trainPosition # NoCell
    /\ drawMode = "remove"
    /\ activeColor = TRACK_COLORS[2]

\* C18: connect on an edge that is present in a colour other than the active
\* one sets the edge's colour to the active colour, touches no other colour
\* and leaves every neighbour list as it was.
C18_Recolour ==
    [][(/\ ModifyStep
        /\ ~ObstacleCell(lastDragCell) /\ ~ObstacleCell(lastDragCell')
        /\ drawMode = "add"
        /\ EdgePresent(lastDragCell, lastDragCell')
        /\ getEdgeKey(lastDragCell, lastDragCell') \in DOMAIN edgeColors
        /\ edgeColors[getEdgeKey(lastDragCell, lastDragCell')] # activeColor)
         => /\ connections' = connections
            /\ edgeColors' =
                  [edgeColors EXCEPT ![getEdgeKey(lastDragCell, lastDragCell')] =
                                          activeColor]]_vars

\* Two edits have left one edge, in the second colour, and no cell has lost a
\* neighbour.
C18_Witness ==
    /\ edits = 2
    /\ Cardinality(DOMAIN edgeColors) = 1
    /\ \A e \in DOMAIN edgeColors : edgeColors[e] = TRACK_COLORS[2]
    /\ activeColor = TRACK_COLORS[2]
    /\ \A k \in DOMAIN connections : connections[k] # << >>
    /\ \E e \in DOMAIN edgeColors : KeyOf(lastDragCell) \in {e[1], e[2]}

\* C19: disconnect on an edge that is present between two cells that are not
\* obstacles removes each cell from the other's neighbours and deletes the
\* edge's colour, leaving the other edges and colours; findPath, which joined
\* the two cells before, joins them afterwards only if another edge path does,
\* and not at all when the edge was the only one of the graph.
C19_Disconnect ==
    [][(/\ ModifyStep
        /\ ~ObstacleCell(lastDragCell) /\ ~ObstacleCell(lastDragCell')
        /\ drawMode = "remove"
        /\ EdgePresent(lastDragCell, lastDragCell'))
         => LET a == KeyOf(lastDragCell)
                b == KeyOf(lastDragCell')
                e == getEdgeKey(lastDragCell, lastDragCell')
            IN /\ NeighborSet(connections', a) = NeighborSet(connections, a) \ {b}
               /\ NeighborSet(connections', b) = NeighborSet(connections, b) \ {a}
               /\ \A k \in Keys \ {a, b} :
                     NeighborSet(connections', k) = NeighborSet(connections, k)
               /\ edgeColors' = MapDelete(edgeColors, e)
               /\ e \notin DOMAIN edgeColors'
               /\ findPath(lastDragCell, lastDragCell', connections).found
               /\ findPath(lastDragCell, lastDragCell', connections').found
                     <=> Connected(connections', a, b)
               /\ Cardinality(DOMAIN edgeColors) = 1
                     => ~findPath(lastDragCell, lastDragCell', connections').found]_vars

\* An edge was drawn and erased: the graph holds cells without neighbours, no
\* edge and no colour.
C19_Witness ==
    /\ edits = 2
    /\ drawMode = "remove"
    /\ DOMAIN edgeColors = {}
    /\ Cardinality(DOMAIN connections) = 2
    /\ \A k \in DOMAIN connections : connections[k] = << >>
    /\ lastDragCell # NoCell /\ KeyOf(lastDragCell) \in DOMAIN connections

\* C20: in every state reached through the drawing layer no cell is its own
\* neighbour and no neighbour list holds the same cell twice.
C20_SimpleGraph ==
    \A k \in DOMAIN connections :
        /\ ~Includes(connections[k], k)
        /\ \A i \in 1..Len(connections[k]), j \in 1..Len(connections[k]) :
              connections[k][i] = connections[k][j] => i = j

\* A cell has two neighbours after more edits than there are edges.
C20_Witness ==
    /\ edits > Cardinality(DOMAIN edgeColors)
    /\ \E k \in DOMAIN connections : Len(connections[k]) = 2
    /\ \A k \in DOMAIN connections : connections[k] # << >>
    /\ collisionCell = NoCell

\* C21: when the resolution of a route of two or more ids, all naming
\* stations, succeeds, no two consecutive cells of the full path are equal,
\* also when a pair of the route names the same station twice; the run
\* walks that path and never sets the train on the same cell twice in a row.
C21_NoRepeatedCell ==
    LET level == LevelOf(query.level)
        rs    == RouteStations(level)
    IN (query.kind = "resolve" /\ query.ok /\ Len(rs) >= 2
           /\ \A n \in 1..Len(rs) : rs[n] # 0)
         => /\ \A n \in 1..(Len(query.path) - 1) :
                  query.path[n] # query.path[n + 1]
            /\ \A k \in DOMAIN runs :
                  /\ runs[k].path = query.path
                  /\ \A n \in 1..(Len(runs[k].positions) - 1) :
                        runs[k].positions[n] # runs[k].positions[n + 1]

\* The route of LevelE, with a station repeated at its start and at its end,
\* was resolved over a path of three cells or more, and the run has walked
\* all of it.
C21_Witness ==
    /\ query.kind = "resolve"
    /\ query.level = "E"
    /\ query.ok
    /\ Len(query.path) >= 3
    /\ Len(runs) = 1
    /\ runs[1].pc = "done"
    /\ runs[1].positions = query.path

\* A step in which startSimulation is accepted.
StartStep == Len(runs') = Len(runs) + 1

\* C22: route resolution is atomic: the step that accepts a start also holds
\* the outcome of the resolution, the blocked message or the first position of
\* the path, with every pair resolved on the connections of that one step; in
\* the step no edit, clear or level change happens and no timer of another run
\* fires.  Only a level effect the host left pending may follow the outcome
\* in the render of that step.
C22_ResolutionAtomic ==
    [][StartStep =>
          LET r   == runs'[Len(runs')]
              res == ResolveRoute(LevelOf(currentLevel), connections)
          IN /\ UNCHANGED <<currentLevel, appState, loading, edits>>
             /\ LevelEffectStep \/ UNCHANGED <<connections, edgeColors>>
             /\ \A k \in DOMAIN runs : runs'[k] = runs[k]
             /\ \/ /\ r.pc = "blocked"
                   /\ ~res.ok
                   /\ r.positions = << >>
                   /\ \/ LevelEffectStep
                      \/ /\ simulationMessage' = BlockedMsg(res.from, res.to)
                         /\ ~isSimulating'
                \/ /\ r.pc = "anim"
                   /\ res.ok /\ r.path = res.fullPath
                   /\ r.positions = <<res.fullPath[1]>>
                   /\ \/ LevelEffectStep
                      \/ /\ trainPosition' = res.fullPath[1]
                         /\ isSimulating'
                \/ /\ r.pc = "final"
                   /\ res.ok /\ res.fullPath = << >> /\ r.path = << >>
                   /\ LevelEffectStep \/ isSimulating']_vars

\* A start was accepted and has set its first position while the timer of a
\* run started on an earlier Board is still pending.
C22_Witness ==
    /\ Len(runs) = 2
    /\ Unfinished(runs[1]) /\ ~runs[1].live
    /\ runs[2].pc = "anim" /\ runs[2].i = 0 /\ runs[2].live
    /\ Len(runs[2].path) >= 2
    /\ trainPosition = runs[2].path[1]

\* A step taken by a simulation run: the accepted start, or a timer of a run
\* (the only steps that change the position a run has reached).
RunStep ==
    \/ StartStep
    \/ /\ Len(runs') = Len(runs)
       /\ \E k \in DOMAIN runs :
             runs'[k].pc # runs[k].pc \/ runs'[k].i # runs[k].i

\* C23: a simulation run never changes the track graph: no step of a run,
\* from the accepted start to the blocked return or to onLevelComplete,
\* changes the adjacency map or the edge-colour map, unless the host's
\* pending level-change effect clears them in the render of that step.
C23_RunKeepsGraph ==
    [][(RunStep /\ ~LevelEffectStep)
          => (connections' = connections /\ edgeColors' = edgeColors)]_vars

\* A run has completed on the Board that is mounted and the tracks it ran on
\* are all there.
C23_Witness ==
    \E k \in DOMAIN runs :
        /\ runs[k].pc = "done" /\ runs[k].live
        /\ Mounted(appState, currentLevel)
        /\ Len(runs[k].path) >= 3
        /\ \A n \in 1..(Len(runs[k].path) - 1) :
              /\ HasEdge(connections, KeyOf(runs[k].path[n]),
                         KeyOf(runs[k].path[n + 1]))
              /\ getEdgeKey(runs[k].path[n], runs[k].path[n + 1])
                    \in DOMAIN edgeColors

\* The terminal outcomes of run k: it returned blocked, or it has set every
\* position of its path and invoked onLevelComplete.
Terminal(k) ==
    /\ k \in DOMAIN runs
    /\ \/ runs[k].pc = "blocked"
       \/ /\ runs[k].pc = "done"
          /\ runs[k].positions = runs[k].path
          /\ runs[k].completed = 1

\* C24: every accepted start eventually reaches a terminal outcome, given
\* that each pending timer eventually fires: the blocked return sets the
\* blocked message and isSimulating false in the step of the start itself
\* (the message is cleared again when the host's pending level effect runs
\* in the render of that step), and every other run sets all positions of its
\* path and then invokes onLevelComplete.
C24_RunTerminates ==
    /\ [][BlockedStart =>
             LET res == ResolveRoute(LevelOf(currentLevel), connections)
             IN /\ simulationMessage' = IF LevelEffectStep THEN NoMessage
                                        ELSE BlockedMsg(res.from, res.to)
                /\ isSimulating' = FALSE]_vars
    /\ \A k \in 1..MaxRuns : (k \in DOMAIN runs) ~> Terminal(k)

\* A blocked run and a completed run of several positions have both ended.
C24_Witness ==
    /\ Len(runs) = 2
    /\ runs[1].pc = "blocked"
    /\ Terminal(2) /\ runs[2].pc = "done"
    /\ Len(runs[2].path) >= 2

\* The cells reachable from cell c along the edges of the adjacency map.
ReachableCells(c) == ReachFrom(connections, {KeyOf(c)}, {KeyOf(c)})

\* C25: findPath terminates on every finite graph, cyclic ones included: the
\* search of every query returns a result, and the number of iterations of
\* its while-loop is at most the number of cells reachable from the start.
C25_FindPathTerminates ==
    query.kind = "findPath" =>
        LET res == findPath(query.start, query.end, connections)
        IN /\ res.found = query.found
           /\ res.path = query.path
           /\ res.dequeues <= Cardinality(ReachableCells(query.start))

\* A search that fails on a graph with a cycle through the start: the loop
\* has dequeued each of the four reachable cells once.
C25_Witness ==
    /\ query.kind = "findPath"
    /\ ~query.found
    /\ Cardinality(ReachableCells(query.start)) = 4
    /\ EdgeCount(connections) = 4
    /\ findPath(query.start, query.end, connections).dequeues = 4

\* Keys a and b are keys of two distinct cells of the grid that differ by at
\* most 1 in x and at most 1 in y.
LocalEdge(a, b) ==
    LET c1 == parseKey(a)
        c2 == parseKey(b)
    IN /\ a # b
       /\ c1 \in Coordinates /\ c2 \in Coordinates
       /\ getKey(c1.x, c1.y) = a /\ getKey(c2.x, c2.y) = b
       /\ c1.x - c2.x \in {0 - 1, 0, 1}
       /\ c1.y - c2.y \in {0 - 1, 0, 1}

EdgesAreLocal ==
    /\ \A k \in DOMAIN connections :
          \A n \in 1..Len(connections[k]) : LocalEdge(k, connections[k][n])
    /\ \A e \in DOMAIN edgeColors : LocalEdge(e[1], e[2])

\* A drag step from one cell of the grid to a cell farther away than one
\* step in x or y.
FarDragStep ==
    /\ pointers' = pointers
    /\ lastDragCell # NoCell /\ lastDragCell' # NoCell
    /\ lastDragCell' # lastDragCell
    /\ ~Adjacent(lastDragCell, lastDragCell')

\* C26: every edge of the track graph joins two distinct cells of the grid
\* that differ by at most 1 in x and at most 1 in y; a drag step to a cell
\* farther away moves the drag cursor and performs no edit.
C26_EdgesAreLocal ==
    /\ []EdgesAreLocal
    /\ [][FarDragStep =>
             UNCHANGED <<connections, edgeColors, edits, collisionCell,
                         isShaking>>]_vars

\* The drag has drawn a track, diagonal included, and then jumped to a far
\* cell, where the cursor now is.
C26_Witness ==
    /\ Cardinality(pointers) = 1 /\ ~isDraggingView
    /\ lastDragCell = FarCell
    /\ edits >= 1
    /\ HasEdge(connections, getKey(1, 1), getKey(2, 2))
    /\ \A k \in DOMAIN connections : Len(connections[k]) <= 1

\* The runs of the Board now mounted whose animation loop is still pending.
InFlight == {k \in DOMAIN runs : runs[k].live /\ Unfinished(runs[k])}

\* C27: at most one simulation run per Board is in flight at any time, and
\* isSimulating is true as long as an animation loop of the mounted Board is
\* pending.
C27_OneRunInFlight ==
    /\ Cardinality(InFlight) <= 1
    /\ InFlight # {} => isSimulating

\* A start was made on a level whose route holds an id that names no station.
MissingStationStart ==
    /\ query.kind = "resolve"
    /\ \E n \in 1..Len(LevelOf(query.level).routeRequest) :
          RouteStations(LevelOf(query.level))[n] = 0

\* C28: when a route id names no station of the level, every consecutive
\* pair containing that id is skipped: findPath is not called for it and it
\* is never reported blocked, the pairs that follow are resolved as usual,
\* the start is accepted as a moving run whenever the remaining pairs are
\* connected, and, the timers firing, such a run ends with onLevelComplete
\* invoked and the level complete.
C28_MissingStationSkipped ==
    /\ [](LET level == LevelOf(query.level)
          IN MissingStationStart =>
                /\ \A j \in 1..Len(query.searched) :
                      query.searched[j] \in ValidPairs(level)
                /\ query.ok <=> BlockedPairs(level, connections) = {}
                /\ query.ok => query.searched = Ascending(ValidPairs(level))
                /\ ~query.ok =>
                      \E s, e \in 1..Len(level.stations) :
                          /\ query.from = level.stations[s].name
                          /\ query.to = level.stations[e].name
                /\ Len(runs) = 1
                /\ query.ok <=> runs[1].pc # "blocked"
                /\ runs[1].path = query.path)
    /\ (MissingStationStart /\ query.ok)
          ~> (/\ Len(runs) = 1
              /\ runs[1].pc = "done"
              /\ runs[1].completed = 1
              /\ runs[1].positions = query.path
              /\ appState = "LEVEL_COMPLETE")

\* The route of LevelF was started: the pair with the unknown id was skipped,
\* the pair after it was searched and found connected, and the run has
\* walked that path and completed the level.
C28_Witness ==
    /\ query.kind = "resolve"
    /\ query.level = "F"
    /\ query.ok
    /\ query.searched = <<1>>
    /\ Len(query.path) >= 2
    /\ Len(runs) = 1
    /\ runs[1].pc = "done"
    /\ runs[1].completed = 1
    /\ appState = "LEVEL_COMPLETE"

\* The cell of a station or an obstacle of a generated level.
CellOf(p) == <<p.x, p.y>>

\* C29: the level generateLevel returns has stations on pairwise distinct
\* cells, and no obstacle shares a cell with a station or with another
\* obstacle.
C29_DistinctCells ==
    query.kind = "generateLevel" =>
        LET stations  == query.level.stations
            obstacles == query.level.obstacles
        IN /\ \A i, j \in 1..Len(stations) :
                 i # j => CellOf(stations[i]) # CellOf(stations[j])
           /\ \A i \in 1..Len(obstacles), j \in 1..Len(stations) :
                 CellOf(obstacles[i]) # CellOf(stations[j])
           /\ \A i, j \in 1..Len(obstacles) :
                 i # j => CellOf(obstacles[i]) # CellOf(obstacles[j])

\* A level of ten stations in which an obstacle was given up after 50 draws
\* of used cells: fewer obstacles than 6 + difficulty were placed.
C29_Witness ==
    /\ query.kind = "generateLevel"
    /\ Len(query.level.stations) = MAX_STATIONS
    /\ Len(query.level.obstacles) >= 1
    /\ Len(query.level.obstacles) < BASE_OBSTACLES + query.level.difficulty

\* C30: the routeRequest generateLevel returns holds only ids of stations of
\* the level; its first min(difficulty + 2, number of stations) ids are
\* pairwise distinct, and it has exactly one further id, equal to the first,
\* if and only if difficulty is 5, and none otherwise.
C30_RouteRequest ==
    query.kind = "generateLevel" =>
        LET level  == query.level
            route  == level.routeRequest
            count  == Len(level.stations)
            length == IF level.difficulty + 2 < count
                      THEN level.difficulty + 2 ELSE count
        IN /\ \A n \in 1..Len(route) : FindStation(level.stations, route[n]) # 0
           /\ Len(route) >= length
           /\ \A m, n \in 1..length : m # n => route[m] # route[n]
           /\ Len(route) = IF level.difficulty = 5 THEN length + 1 ELSE length
           /\ level.difficulty = 5 => route[Len(route)] = route[1]

\* A level of difficulty 5: a route of seven distinct stations closed by the
\* first one.
C30_Witness ==
    /\ query.kind = "generateLevel"
    /\ query.level.difficulty = 5
    /\ Len(query.level.routeRequest) = 8
    /\ query.level.routeRequest[8] = query.level.routeRequest[1]

====
